---- MODULE Spec2Model ----
(***************************************************************************)
(* A model of the quasar chess engine (src/src/quasar): geometry, pieces,  *)
(* the piece collection, the move generator, move legality and the         *)
(* immutable State with its transition function.                           *)
(*                                                                         *)
(* Option<T> values are sequences: <<>> is None and <<v>> is Some(v).      *)
(* Colours are booleans as in the code: TRUE is white.                     *)
(***************************************************************************)
EXTENDS Integers, Sequences, FiniteSets, TLC

\* ------------------------------------------------------------------------
\* Bounds of the model
\* ------------------------------------------------------------------------

\* Largest coordinate treated as representable (the code's i128::MAX, scaled
\* down); the smallest is -CoordMax - 1.
CoordMax == 100000

\* How many times the caller descends into a successor state.
MaxPly == 1

\* How many times is_legal is called on one Move value.
MaxCalls == 2

\* How many times a caller calls next() on one MoveGenerator.
MaxGenCalls == 520

\* How many of the moves a get_legal_moves call collects are recorded (a
\* sliding piece on an open line keeps adding moves for as long as it runs).
MaxLegalMoves == 40

\* ------------------------------------------------------------------------
\* Program constants
\* ------------------------------------------------------------------------

\* i8::MAX, the ceiling of MoveGenerator::current_multiplier.
I8Max == 127

\* The files the castling code looks for a rook on.
KingsideRookX == 7
QueensideRookX == 0

\* Where handle_castling puts the rook.
KingsideRookTo == 5
QueensideRookTo == 3

\* ------------------------------------------------------------------------
\* geometry.rs
\* ------------------------------------------------------------------------

CoordMin == -CoordMax - 1

Representable(v) == CoordMin <= v /\ v <= CoordMax

Point(x, y) == [x |-> x, y |-> y]

\* An addition that wraps around at the ends of the representable range.
wrapping_add(a, b) == ((a + b - CoordMin) % (2 * CoordMax + 2)) + CoordMin

\* checked_add as a wrapping addition that never fails.
checked_add_wrapping(p, q) ==
    << Point(wrapping_add(p.x, q.x), wrapping_add(p.y, q.y)) >>

\* checked_add checking the x component only.
checked_add_x_only(p, q) ==
    IF Representable(p.x + q.x)
    THEN << Point(p.x + q.x, p.y + q.y) >>
    ELSE << >>

\* Point::checked_add: None when either component sum is not representable.
checked_add(p, q) ==
    IF Representable(p.x + q.x) /\ Representable(p.y + q.y)
    THEN << Point(p.x + q.x, p.y + q.y) >>
    ELSE << >>

PointAdd(p, q) == Point(p.x + q.x, p.y + q.y)

PointSub(p, q) == Point(p.x - q.x, p.y - q.y)

Abs(v) == IF v < 0 THEN -v ELSE v

Signum(v) == IF v > 0 THEN 1 ELSE IF v < 0 THEN -1 ELSE 0

\* A division that rounds toward minus infinity.
floor_div(a, b) == IF b > 0 THEN a \div b ELSE (-a) \div (-b)

\* Rust's integer division truncates toward zero (b # 0).
TruncDiv(a, b) ==
    LET q == Abs(a) \div Abs(b)
    IN  IF (a < 0) # (b < 0) THEN -q ELSE q

\* What an i128 operator leaves when its exact result is v: v itself when it
\* is representable; otherwise the low bits, as a build without overflow
\* checks keeps them.
wrap_i128(v) == ((v - CoordMin) % (2 * CoordMax + 2)) + CoordMin

\* The outcomes of a Point operator whose exact component results are x and
\* y: the point when both are representable; otherwise a panic (overflow
\* checks on) or the wrapped point (overflow checks off).
point_outcomes(x, y) ==
    IF Representable(x) /\ Representable(y)
    THEN {[panicked |-> FALSE, point |-> Point(x, y)]}
    ELSE {[panicked |-> TRUE, point |-> Point(0, 0)],
          [panicked |-> FALSE, point |-> Point(wrap_i128(x), wrap_i128(y))]}

\* impl Add<Point> for Point
point_add(self, other) == point_outcomes(self.x + other.x, self.y + other.y)

\* impl Sub<Point> for Point
point_sub(self, other) == point_outcomes(self.x - other.x, self.y - other.y)

\* impl Mul<T> for Point
point_mul(self, value) == point_outcomes(self.x * value, self.y * value)

\* impl Div<T> for Point: a zero divisor panics, and so does the one
\* quotient that is not representable (the least value divided by -1).
point_div(self, value) ==
    IF value = 0 \/ (value = -1 /\ CoordMin \in {self.x, self.y})
    THEN {[panicked |-> TRUE, point |-> Point(0, 0)]}
    ELSE {[panicked |-> FALSE,
           point |-> Point(TruncDiv(self.x, value), TruncDiv(self.y, value))]}

\* (p1 + p2) * 2 - p3, each operator applied to what the one before left.
point_chain(p1, p2, p3) ==
    UNION { IF a.panicked THEN {a}
            ELSE UNION { IF b.panicked THEN {b} ELSE point_sub(b.point, p3) :
                         b \in point_mul(a.point, 2) } :
            a \in point_add(p1, p2) }

\* `v as i8`: the low 8 bits, read as a signed value.
as_i8(v) == ((v + 128) % 256) - 128

\* i8 subtraction followed by abs(), with release-build wrapping.
i8_abs_diff(a, b) ==
    LET d == as_i8(as_i8(a) - as_i8(b))
    IN  IF d < 0 THEN as_i8(-d) ELSE d

\* `(to_y as i8 - from_y as i8).abs() == 2`, as each build evaluates it: when
\* the i8 subtraction or abs() overflows, a build with overflow checks panics
\* and one without wraps.
two_square_test(to_y, from_y) ==
    LET d == as_i8(to_y) - as_i8(from_y)
        wrapped == [panicked |-> FALSE, two |-> i8_abs_diff(to_y, from_y) = 2]
    IN  IF d < -127 \/ d > 127
        THEN {[panicked |-> TRUE, two |-> FALSE], wrapped}
        ELSE {wrapped}

\* saturating_mul of an offset component by the multiplier.
saturating_mul(a, b) ==
    IF a * b > CoordMax THEN CoordMax
    ELSE IF a * b < CoordMin THEN CoordMin
    ELSE a * b

\* ------------------------------------------------------------------------
\* pieces.rs
\* ------------------------------------------------------------------------

PieceType == {"Null", "Pawn", "Knight", "Bishop", "Rook", "Queen", "King"}

\* `form as u8`: the discriminant used as the sort key.
FormRank(form) ==
    CASE form = "Null" -> 0
      [] form = "Pawn" -> 1
      [] form = "Knight" -> 2
      [] form = "Bishop" -> 3
      [] form = "Rook" -> 4
      [] form = "Queen" -> 5
      [] form = "King" -> 6

is_sliding(form) == form \in {"Bishop", "Rook", "Queen"}

pawn_offsets(color) ==
    LET direction == IF color THEN 1 ELSE -1
    IN  << Point(0, direction), Point(0, 2 * direction),
           Point(-1, direction), Point(1, direction) >>

knight_offsets ==
    << Point(1, 2), Point(2, 1), Point(2, -1), Point(1, -2),
       Point(-1, -2), Point(-2, -1), Point(-2, 1), Point(-1, 2) >>

bishop_offsets ==
    << Point(1, 1), Point(1, -1), Point(-1, -1), Point(-1, 1) >>

rook_offsets ==
    << Point(0, 1), Point(1, 0), Point(0, -1), Point(-1, 0) >>

queen_king_offsets ==
    << Point(0, 1), Point(1, 1), Point(1, 0), Point(1, -1),
       Point(0, -1), Point(-1, -1), Point(-1, 0), Point(-1, 1) >>

get_offsets(piece_type, color) ==
    CASE piece_type = "Pawn" -> pawn_offsets(color)
      [] piece_type = "Knight" -> knight_offsets
      [] piece_type = "Bishop" -> bishop_offsets
      [] piece_type = "Rook" -> rook_offsets
      [] piece_type \in {"Queen", "King"} -> queen_king_offsets
      [] OTHER -> << >>

\* Piece::new
NewPiece(form, position, color) ==
    [ form |-> form,
      position |-> position,
      color |-> color,
      sliding |-> is_sliding(form),
      alive |-> TRUE,
      moved |-> FALSE,
      offsets |-> get_offsets(form, color),
      is_en_passant_target |-> FALSE ]

\* The key of PieceList::new's sort: (!color, form as u8), compared
\* lexicographically.
SortKeyLeq(p, q) ==
    \/ (p.color /\ ~q.color)
    \/ (p.color = q.color /\ FormRank(p.form) <= FormRank(q.form))

\* One step of a stable insertion sort: p goes after every element whose key
\* is less than or equal to its own.
RECURSIVE InsertSorted(_, _)
InsertSorted(sorted, p) ==
    IF sorted = << >> THEN << p >>
    ELSE IF SortKeyLeq(sorted[Len(sorted)], p)
         THEN Append(sorted, p)
         ELSE Append(InsertSorted(SubSeq(sorted, 1, Len(sorted) - 1), p),
                     sorted[Len(sorted)])

RECURSIVE StableSort(_)
StableSort(pieces) ==
    IF pieces = << >> THEN << >>
    ELSE InsertSorted(StableSort(SubSeq(pieces, 1, Len(pieces) - 1)),
                      pieces[Len(pieces)])

\* PieceList::new
NewPieceList(pieces) ==
    LET sorted == StableSort(pieces)
        white_count == Cardinality({i \in 1..Len(sorted) : sorted[i].color})
    IN  [ list |-> sorted,
          white_count |-> white_count,
          black_count |-> Len(sorted) - white_count,
          white_index |-> white_count ]

\* The index of the first piece standing on (x, y), alive or not; 0 if none.
find_at(list, x, y) ==
    LET S == {i \in 1..Len(list) :
                list[i].position.x = x /\ list[i].position.y = y}
    IN  IF S = {} THEN 0 ELSE CHOOSE i \in S : \A j \in S : i <= j

\* PieceList::get_piece_at
get_piece_at(pieces, x, y) ==
    LET i == find_at(pieces.list, x, y)
    IN  IF i = 0 THEN << >> ELSE << pieces.list[i] >>

\* PieceList::get_white_pieces: &list[..white_index]
get_white_pieces(pieces) == SubSeq(pieces.list, 1, pieces.white_index)

\* PieceList::get_black_pieces: &list[white_index..]
get_black_pieces(pieces) ==
    SubSeq(pieces.list, pieces.white_index + 1, Len(pieces.list))

\* PieceList::get_white_king: the last piece of the white range.
get_white_king(pieces) == pieces.list[pieces.white_index]

\* PieceList::get_black_king: the last piece of the list.
get_black_king(pieces) == pieces.list[Len(pieces.list)]

\* PieceList::clear_en_passant_target
clear_en_passant_target(pieces) ==
    [pieces EXCEPT !.list =
        [i \in 1..Len(pieces.list) |->
            [pieces.list[i] EXCEPT !.is_en_passant_target = FALSE]]]

\* PieceList::set_en_passant_target
set_en_passant_target(pieces, x, y) ==
    LET i == find_at(pieces.list, x, y)
    IN  IF i = 0 THEN pieces
        ELSE [pieces EXCEPT !.list[i].is_en_passant_target = TRUE]

\* PieceList::get_en_passant_target
get_en_passant_target(pieces) ==
    LET S == {i \in 1..Len(pieces.list) :
                pieces.list[i].form = "Pawn"
                /\ pieces.list[i].is_en_passant_target}
    IN  IF S = {} THEN << >>
        ELSE << pieces.list[CHOOSE i \in S : \A j \in S : i <= j].position >>

\* ------------------------------------------------------------------------
\* generator.rs
\* ------------------------------------------------------------------------

\* MoveGenerator::new treating every piece as a sliding one.
NewMoveGenerator_all_sliding(piece) ==
    [ current_position |-> piece.position,
      offsets |-> piece.offsets,
      current_offset_index |-> 0,
      current_multiplier |-> 1,
      is_sliding |-> TRUE ]

\* MoveGenerator::new
NewMoveGenerator(piece) ==
    [ current_position |-> piece.position,
      offsets |-> piece.offsets,
      current_offset_index |-> 0,
      current_multiplier |-> 1,
      is_sliding |-> is_sliding(piece.form) ]

\* i8::saturating_add(1)
saturating_inc(m) == IF m >= I8Max THEN I8Max ELSE m + 1

\* MoveGenerator::next: the generator after the call and the Option<Point> it
\* returns. A failed checked_add returns None before the index is advanced.
generator_next(g) ==
    LET wrapped == g.current_offset_index >= Len(g.offsets)
    IN  IF wrapped /\ ~g.is_sliding
        THEN [gen |-> g, out |-> << >>]
        ELSE
          LET g1 == IF wrapped
                    THEN [g EXCEPT !.current_offset_index = 0,
                                   !.current_multiplier =
                                       saturating_inc(g.current_multiplier)]
                    ELSE g
              offset == g1.offsets[g1.current_offset_index + 1]
              scaled == Point(saturating_mul(offset.x, g1.current_multiplier),
                              saturating_mul(offset.y, g1.current_multiplier))
              new_point == checked_add(g1.current_position, scaled)
          IN  IF new_point = << >>
              THEN [gen |-> g1, out |-> << >>]
              ELSE [gen |-> [g1 EXCEPT !.current_offset_index = @ + 1],
                    out |-> new_point]

\* ------------------------------------------------------------------------
\* moves.rs: construction
\* ------------------------------------------------------------------------

\* Move::new handing out a Move already flagged as a promotion to Queen.
NewMove_promoting(from, to, piece) ==
    [ from |-> from,
      to |-> to,
      piece |-> piece,
      captured_piece |-> << >>,
      is_promotion |-> TRUE,
      promotion_type |-> << "Queen" >>,
      is_castling |-> FALSE,
      is_en_passant |-> FALSE,
      is_legal |-> FALSE ]

\* Move::new
NewMove(from, to, piece) ==
    [ from |-> from,
      to |-> to,
      piece |-> piece,
      captured_piece |-> << >>,
      is_promotion |-> FALSE,
      promotion_type |-> << >>,
      is_castling |-> FALSE,
      is_en_passant |-> FALSE,
      is_legal |-> FALSE ]

with_capture(self, captured_piece) ==
    [self EXCEPT !.captured_piece = << captured_piece >>]

with_promotion(self, promotion_type) ==
    [self EXCEPT !.is_promotion = TRUE, !.promotion_type = << promotion_type >>]

set_castling(self) == [self EXCEPT !.is_castling = TRUE]

set_en_passant(self) == [self EXCEPT !.is_en_passant = TRUE]

\* ------------------------------------------------------------------------
\* state.rs: construction and the transition function
\* ------------------------------------------------------------------------

\* State::new
NewState(pieces, move_count, to_move) ==
    [ pieces |-> pieces,
      move_count |-> move_count,
      to_move |-> to_move,
      previous_state |-> << >>,
      last_move |-> << >> ]

\* State::update_piece_position: the first piece found on `from` is moved,
\* marked moved and, on a promotion, given the promotion type.
update_piece_position(new_pieces, move_) ==
    LET i == find_at(new_pieces.list, move_.from.x, move_.from.y)
    IN  IF i = 0 THEN new_pieces
        ELSE [new_pieces EXCEPT !.list[i] =
                [@ EXCEPT !.position = move_.to,
                          !.moved = TRUE,
                          !.form = IF move_.is_promotion
                                      /\ move_.promotion_type # << >>
                                   THEN move_.promotion_type[1]
                                   ELSE @]]

\* State::handle_capture: with a captured piece recorded in the move, the
\* first piece found on `to` (after the relocation) is marked not alive.
handle_capture(new_pieces, move_) ==
    IF move_.captured_piece = << >> THEN new_pieces
    ELSE LET j == find_at(new_pieces.list, move_.to.x, move_.to.y)
         IN  IF j = 0 THEN new_pieces
             ELSE [new_pieces EXCEPT !.list[j].alive = FALSE]

\* State::handle_castling
handle_castling(new_pieces, move_) ==
    LET kingside == move_.to.x > move_.from.x
        rook_from == IF kingside THEN Point(KingsideRookX, move_.from.y)
                     ELSE Point(QueensideRookX, move_.from.y)
        rook_to == IF kingside THEN Point(KingsideRookTo, move_.from.y)
                   ELSE Point(QueensideRookTo, move_.from.y)
        r == find_at(new_pieces.list, rook_from.x, rook_from.y)
    IN  IF r = 0 THEN new_pieces
        ELSE [new_pieces EXCEPT !.list[r] =
                [@ EXCEPT !.position = rook_to, !.moved = TRUE]]

\* State::handle_en_passant
handle_en_passant(self, new_pieces, move_) ==
    LET captured_pawn_y == IF self.to_move THEN move_.to.y - 1
                           ELSE move_.to.y + 1
        k == find_at(new_pieces.list, move_.to.x, captured_pawn_y)
    IN  IF k = 0 THEN new_pieces
        ELSE [new_pieces EXCEPT !.list[k].alive = FALSE]

\* State::update_en_passant_target
update_en_passant_target(new_pieces, move_) ==
    LET cleared == clear_en_passant_target(new_pieces)
        at_to == get_piece_at(cleared, move_.to.x, move_.to.y)
    IN  IF at_to # << >>
           /\ at_to[1].form = "Pawn"
           /\ i8_abs_diff(move_.to.y, move_.from.y) = 2
        THEN set_en_passant_target(cleared, move_.to.x,
                                   TruncDiv(move_.from.y + move_.to.y, 2))
        ELSE cleared

\* State::handle_special_moves
handle_special_moves(self, new_pieces, move_) ==
    LET p1 == IF move_.is_castling THEN handle_castling(new_pieces, move_)
              ELSE new_pieces
        p2 == IF move_.is_en_passant THEN handle_en_passant(self, p1, move_)
              ELSE p1
    IN  update_en_passant_target(p2, move_)

\* make_move with the predecessor link copied from `self` instead of pointing
\* at it.
make_move_stale_link(self, move_) ==
    LET p1 == update_piece_position(self.pieces, move_)
        p2 == handle_capture(p1, move_)
        p3 == handle_special_moves(self, p2, move_)
    IN  [ pieces |-> p3,
          move_count |-> self.move_count + 1,
          to_move |-> ~self.to_move,
          previous_state |-> self.previous_state,
          last_move |-> << move_ >> ]

\* State::make_move: a new State; `self` is only read.
make_move(self, move_) ==
    LET p1 == update_piece_position(self.pieces, move_)
        p2 == handle_capture(p1, move_)
        p3 == handle_special_moves(self, p2, move_)
    IN  [ pieces |-> p3,
          move_count |-> self.move_count + 1,
          to_move |-> ~self.to_move,
          previous_state |-> << self >>,
          last_move |-> << move_ >> ]

\* ------------------------------------------------------------------------
\* moves.rs: legality
\* ------------------------------------------------------------------------

\* Move::is_piece_valid, the test: a piece of the side to move is the first
\* piece found on `from`.
is_piece_valid(self, state) ==
    LET p == get_piece_at(state.pieces, self.from.x, self.from.y)
    IN  p # << >> /\ p[1].color = state.to_move

\* Move::is_piece_valid, the effect: the move's piece snapshot is refreshed.
refresh_piece(self, state) ==
    [self EXCEPT !.piece =
        get_piece_at(state.pieces, self.from.x, self.from.y)[1]]

\* Move::update_captured_piece
update_captured_piece(self, state) ==
    LET d == get_piece_at(state.pieces, self.to.x, self.to.y)
    IN  IF d # << >> /\ d[1].color # self.piece.color
        THEN [self EXCEPT !.captured_piece = d]
        ELSE self

\* Move::is_path_clear: the squares strictly between from and to hold no
\* piece. Only called when the walk from `from` reaches `to`.
RECURSIVE path_clear_from(_, _, _, _, _)
path_clear_from(state, current, to, dx, dy) ==
    IF current = to THEN TRUE
    ELSE IF get_piece_at(state.pieces, current.x, current.y) # << >>
         THEN FALSE
         ELSE path_clear_from(state, PointAdd(current, Point(dx, dy)), to, dx, dy)

is_path_clear(self, state) ==
    LET dx == Signum(self.to.x - self.from.x)
        dy == Signum(self.to.y - self.from.y)
    IN  path_clear_from(state, PointAdd(self.from, Point(dx, dy)), self.to, dx, dy)

\* is_legal_pawn_move without the `!self.piece.moved` test of the two-square
\* step.
is_legal_pawn_move_any_time(self, state) ==
    LET direction == IF self.piece.color THEN 1 ELSE -1
        move_offset == PointSub(self.to, self.from)
        intermediate == PointAdd(self.from, Point(0, direction))
    IN  IF move_offset = Point(0, direction)
        THEN get_piece_at(state.pieces, self.to.x, self.to.y) = << >>
        ELSE IF move_offset = Point(0, 2 * direction)
        THEN /\ get_piece_at(state.pieces, intermediate.x, intermediate.y) = << >>
             /\ get_piece_at(state.pieces, self.to.x, self.to.y) = << >>
        ELSE IF move_offset = Point(-1, direction) \/ move_offset = Point(1, direction)
        THEN \/ get_piece_at(state.pieces, self.to.x, self.to.y) # << >>
             \/ self.is_en_passant
        ELSE FALSE

\* Move::is_legal_pawn_move
is_legal_pawn_move(self, state) ==
    LET direction == IF self.piece.color THEN 1 ELSE -1
        forward == Point(0, direction)
        double_forward == Point(0, 2 * direction)
        attack_left == Point(-1, direction)
        attack_right == Point(1, direction)
        move_offset == PointSub(self.to, self.from)
        intermediate == PointAdd(self.from, forward)
    IN  IF move_offset = forward
        THEN get_piece_at(state.pieces, self.to.x, self.to.y) = << >>
        ELSE IF move_offset = double_forward /\ ~self.piece.moved
        THEN /\ get_piece_at(state.pieces, intermediate.x, intermediate.y) = << >>
             /\ get_piece_at(state.pieces, self.to.x, self.to.y) = << >>
        ELSE IF move_offset = attack_left \/ move_offset = attack_right
        THEN \/ get_piece_at(state.pieces, self.to.x, self.to.y) # << >>
             \/ self.is_en_passant
        ELSE FALSE

\* Move::is_legal_knight_move
is_legal_knight_move(self) ==
    \E k \in 1..Len(knight_offsets) :
        knight_offsets[k] = PointSub(self.to, self.from)

\* Move::is_legal_bishop_move
is_legal_bishop_move(self, state) ==
    /\ Abs(self.to.x - self.from.x) = Abs(self.to.y - self.from.y)
    /\ is_path_clear(self, state)

\* Move::is_legal_rook_move
is_legal_rook_move(self, state) ==
    /\ (self.from.x = self.to.x \/ self.from.y = self.to.y)
    /\ is_path_clear(self, state)

\* Move::is_legal_queen_move
is_legal_queen_move(self, state) ==
    /\ (is_legal_bishop_move(self, state) \/ is_legal_rook_move(self, state))
    /\ is_path_clear(self, state)

\* is_legal_king_move without its two distance tests: any destination is a
\* king move.
is_legal_king_move_anywhere(self) == TRUE

\* Move::is_legal_king_move
is_legal_king_move(self) ==
    /\ Abs(self.to.x - self.from.x) <= 1
    /\ Abs(self.to.y - self.from.y) <= 1

\* Move::is_basic_move_legal
is_basic_move_legal(self, state) ==
    CASE self.piece.form = "Pawn" -> is_legal_pawn_move(self, state)
      [] self.piece.form = "Knight" -> is_legal_knight_move(self)
      [] self.piece.form = "Bishop" -> is_legal_bishop_move(self, state)
      [] self.piece.form = "Rook" -> is_legal_rook_move(self, state)
      [] self.piece.form = "Queen" -> is_legal_queen_move(self, state)
      [] self.piece.form = "King" -> is_legal_king_move(self)
      [] OTHER -> FALSE

\* Move::is_castling_path_clear: the scan from the square next to the king up
\* to the rook file. When the king does not stand on the near side of that
\* file the scan never meets it.
castling_scan_ends(self) ==
    IF self.to.x > self.from.x THEN self.from.x < KingsideRookX
    ELSE self.from.x > QueensideRookX

RECURSIVE castling_scan(_, _, _, _, _)
castling_scan(state, x, y, step, stop) ==
    IF x = stop THEN TRUE
    ELSE IF get_piece_at(state.pieces, x, y) # << >> THEN FALSE
         ELSE castling_scan(state, x + step, y, step, stop)

is_castling_path_clear(self, state) ==
    LET step == IF self.to.x > self.from.x THEN 1 ELSE -1
    IN  castling_scan(state, self.from.x + step, self.from.y, step,
                      IF step > 0 THEN KingsideRookX ELSE QueensideRookX)

\* Move::is_legal_en_passant
is_legal_en_passant(self, state) ==
    IF self.piece.form # "Pawn" THEN FALSE
    ELSE IF state.last_move = << >> THEN FALSE
    ELSE
      LET last_move == state.last_move[1]
          expected_y == IF self.piece.color THEN 4 ELSE 3
          expected_to_y == IF self.piece.color THEN 5 ELSE 2
      IN  IF last_move.piece.form # "Pawn"
             \/ i8_abs_diff(last_move.to.y, last_move.from.y) # 2
          THEN FALSE
          ELSE IF self.from.y # expected_y THEN FALSE
          ELSE IF self.to.y # expected_to_y \/ self.to.x # last_move.to.x
          THEN FALSE
          ELSE TRUE

RECURSIVE is_legal(_, _)
RECURSIVE is_king_in_check(_, _)

\* Move::is_castling_through_check: every file from the king's own up to, not
\* including, the destination file is probed with an unflagged king move from
\* the start square onto it.
RECURSIVE through_check_from(_, _, _, _)
through_check_from(self, state, x, step) ==
    IF x = self.to.x THEN FALSE
    ELSE
      LET test_move == NewMove(self.from, Point(x, self.from.y), self.piece)
      IN  IF is_king_in_check(state, self.piece.color)
             \/ ~is_legal(test_move, state).ret
          THEN TRUE
          ELSE through_check_from(self, state, x + step, step)

is_castling_through_check(self, state) ==
    LET step == IF self.to.x > self.from.x THEN 1 ELSE -1
    IN  through_check_from(self, state, self.from.x, step)

\* Move::is_legal_castling
is_legal_castling(self, state) ==
    LET king == get_piece_at(state.pieces, self.from.x, self.from.y)[1]
        rook_x == IF self.to.x > self.from.x THEN KingsideRookX
                  ELSE QueensideRookX
        rook == get_piece_at(state.pieces, rook_x, self.from.y)
    IN  IF king.moved THEN FALSE
        ELSE IF ~(rook # << >> /\ rook[1].form = "Rook" /\ ~rook[1].moved)
        THEN FALSE
        ELSE /\ is_castling_path_clear(self, state)
             /\ ~is_castling_through_check(self, state)

\* Move::is_special_move_legal
is_special_move_legal(self, state) ==
    IF self.is_castling /\ ~is_legal_castling(self, state) THEN FALSE
    ELSE IF self.is_en_passant /\ ~is_legal_en_passant(self, state) THEN FALSE
    ELSE TRUE

\* leaves_king_in_check asking about the other side's king.
leaves_king_in_check_other_side(self, state) ==
    \E new_state \in {make_move(state, self)} :
        is_king_in_check(new_state, ~self.piece.color)

\* Move::leaves_king_in_check: the successor is built once and then examined.
leaves_king_in_check(self, state) ==
    \E new_state \in {make_move(state, self)} :
        is_king_in_check(new_state, self.piece.color)

\* is_legal with the captured piece recorded only after the king-safety
\* simulation.
is_legal_capture_late(self0, state) ==
    IF self0.from = self0.to \/ ~is_piece_valid(self0, state)
    THEN [self |-> self0, ret |-> FALSE]
    ELSE
      LET early == refresh_piece(self0, state)
          self1 == update_captured_piece(early, state)
          basic_legal == is_basic_move_legal(self1, state)
          special_legal == is_special_move_legal(self1, state)
      IN  IF ~basic_legal \/ ~special_legal
          THEN [self |-> [self1 EXCEPT !.is_legal = FALSE], ret |-> FALSE]
          ELSE LET safe == ~leaves_king_in_check(early, state)
               IN  [self |-> [self1 EXCEPT !.is_legal = safe], ret |-> safe]

\* Move::is_legal. The method takes the Move by mutable reference: `self` is
\* the Move after the call and `ret` the boolean returned.
is_legal(self0, state) ==
    IF self0.from = self0.to \/ ~is_piece_valid(self0, state)
    THEN [self |-> self0, ret |-> FALSE]
    ELSE
      LET self1 == update_captured_piece(refresh_piece(self0, state), state)
          basic_legal == is_basic_move_legal(self1, state)
          special_legal == is_special_move_legal(self1, state)
      IN  IF ~basic_legal \/ ~special_legal
          THEN [self |-> [self1 EXCEPT !.is_legal = FALSE], ret |-> FALSE]
          ELSE LET safe == ~leaves_king_in_check(self1, state)
               IN  [self |-> [self1 EXCEPT !.is_legal = safe], ret |-> safe]

\* State::is_king_in_check
is_king_in_check(self, color) ==
    LET king == IF color THEN get_white_king(self.pieces)
                ELSE get_black_king(self.pieces)
        list == self.pieces.list
    IN  \E i \in 1..Len(list) :
            /\ list[i].color # color
            /\ list[i].alive
            /\ is_legal(NewMove(list[i].position, king.position, list[i]), self).ret

\* ------------------------------------------------------------------------
\* How deep the king-safety simulations nest while is_legal runs
\* ------------------------------------------------------------------------

MaxOf(S) == IF S = {} THEN 0 ELSE CHOOSE n \in S : \A k \in S : k <= n

RECURSIVE is_legal_nesting(_, _)
RECURSIVE is_king_in_check_nesting(_, _)

\* The pieces State::is_king_in_check(color) hands to is_legal before `any`
\* stops: the alive enemy pieces up to the first whose move onto the king is
\* accepted.
probed_pieces(self, color) ==
    LET king == IF color THEN get_white_king(self.pieces)
                ELSE get_black_king(self.pieces)
        list == self.pieces.list
        enemy == {i \in 1..Len(list) : list[i].color # color /\ list[i].alive}
        hits == {i \in enemy :
                    is_legal(NewMove(list[i].position, king.position, list[i]),
                             self).ret}
    IN  IF hits = {} THEN enemy
        ELSE {i \in enemy : \A h \in hits : i <= h}

\* State::is_king_in_check: the deepest nesting among its is_legal calls.
is_king_in_check_nesting(self, color) ==
    LET king == IF color THEN get_white_king(self.pieces)
                ELSE get_black_king(self.pieces)
        list == self.pieces.list
    IN  MaxOf({is_legal_nesting(NewMove(list[i].position, king.position, list[i]),
                                self) :
               i \in probed_pieces(self, color)})

\* Move::is_castling_through_check: the deepest nesting among the
\* is_king_in_check and is_legal calls of its probes, up to the probe that
\* ends the loop.
RECURSIVE through_check_nesting(_, _, _, _)
through_check_nesting(self, state, x, step) ==
    IF x = self.to.x THEN 0
    ELSE
      LET test_move == NewMove(self.from, Point(x, self.from.y), self.piece)
          in_check == is_king_in_check(state, self.piece.color)
          here == IF in_check
                  THEN is_king_in_check_nesting(state, self.piece.color)
                  ELSE MaxOf({is_king_in_check_nesting(state, self.piece.color),
                              is_legal_nesting(test_move, state)})
      IN  IF in_check \/ ~is_legal(test_move, state).ret
          THEN here
          ELSE MaxOf({here, through_check_nesting(self, state, x + step, step)})

\* Move::is_special_move_legal: the nesting inside the castling probe, which
\* runs when the flagged king is unmoved, its rook is found and the path to
\* the rook file is clear.
is_special_move_legal_nesting(self, state) ==
    LET king == get_piece_at(state.pieces, self.from.x, self.from.y)[1]
        rook_x == IF self.to.x > self.from.x THEN KingsideRookX
                  ELSE QueensideRookX
        rook == get_piece_at(state.pieces, rook_x, self.from.y)
    IN  IF /\ self.is_castling
           /\ ~king.moved
           /\ rook # << >> /\ rook[1].form = "Rook" /\ ~rook[1].moved
           /\ is_castling_path_clear(self, state)
        THEN through_check_nesting(self, state, self.from.x,
                                   IF self.to.x > self.from.x THEN 1 ELSE -1)
        ELSE 0

\* Move::is_legal: 0 when it returns without a simulation; otherwise one more
\* than the nesting inside the is_king_in_check call of leaves_king_in_check,
\* or the nesting of the castling probe if that is deeper.
is_legal_nesting(self0, state) ==
    IF self0.from = self0.to \/ ~is_piece_valid(self0, state) THEN 0
    ELSE
      LET self1 == update_captured_piece(refresh_piece(self0, state), state)
          special == is_special_move_legal_nesting(self1, state)
      IN  IF ~is_basic_move_legal(self1, state)
             \/ ~is_special_move_legal(self1, state)
          THEN special
          ELSE MaxOf({special,
                      1 + is_king_in_check_nesting(make_move(state, self1),
                                                   self1.piece.color)})

\* ------------------------------------------------------------------------
\* parser.rs
\* ------------------------------------------------------------------------

\* A board description arrives as its whitespace-separated fields, each a
\* sequence of one-character strings.

Digits == << "0", "1", "2", "3", "4", "5", "6", "7", "8", "9" >>

\* char::to_digit(10): <<d>> for a decimal digit, <<>> otherwise.
to_digit(c) ==
    LET S == {d \in 1..Len(Digits) : Digits[d] = c}
    IN  IF S = {} THEN << >> ELSE << (CHOOSE d \in S : TRUE) - 1 >>

UpperPieceLetters == {"P", "N", "B", "R", "Q", "K"}
LowerPieceLetters == {"p", "n", "b", "r", "q", "k"}

\* The match on c.to_ascii_lowercase(): <<form>> or <<>> for an unknown letter.
piece_type_of(c) ==
    CASE c \in {"p", "P"} -> << "Pawn" >>
      [] c \in {"n", "N"} -> << "Knight" >>
      [] c \in {"b", "B"} -> << "Bishop" >>
      [] c \in {"r", "R"} -> << "Rook" >>
      [] c \in {"q", "Q"} -> << "Queen" >>
      [] c \in {"k", "K"} -> << "King" >>
      [] OTHER -> << >>

\* char::is_ascii_uppercase on the characters a description is built from.
is_ascii_uppercase(c) ==
    c \in UpperPieceLetters \cup {"A", "C", "D", "E", "F", "G", "H", "X", "Z"}

\* str::split('/'): the pieces between the separators, empty ones included.
RECURSIVE split_slash(_, _, _)
split_slash(chars, k, current) ==
    IF k > Len(chars) THEN << current >>
    ELSE IF chars[k] = "/"
         THEN << current >> \o split_slash(chars, k + 1, << >>)
         ELSE split_slash(chars, k + 1, Append(current, chars[k]))

\* The inner loop of parse_fen over one rank: the pieces pushed so far, or an
\* error.
RECURSIVE parse_rank(_, _, _, _, _)
parse_rank(rank_str, k, rank, file, pieces) ==
    IF k > Len(rank_str) THEN [ok |-> TRUE, pieces |-> pieces]
    ELSE
      LET c == rank_str[k]
      IN  IF to_digit(c) # << >>
          THEN parse_rank(rank_str, k + 1, rank, file + to_digit(c)[1], pieces)
          ELSE IF piece_type_of(c) = << >>
          THEN [ok |-> FALSE, err |-> "Invalid piece type"]
          ELSE parse_rank(rank_str, k + 1, rank, file + 1,
                   Append(pieces,
                          NewPiece(piece_type_of(c)[1],
                                   Point(file + 1, 8 - rank),
                                   is_ascii_uppercase(c))))

RECURSIVE parse_ranks(_, _, _)
parse_ranks(ranks, r, pieces) ==
    IF r > Len(ranks) THEN [ok |-> TRUE, pieces |-> pieces]
    ELSE LET one == parse_rank(ranks[r], 1, r - 1, 0, pieces)
         IN  IF one.ok THEN parse_ranks(ranks, r + 1, one.pieces) ELSE one

\* str::parse::<usize>: decimal digits after an optional plus sign.
RECURSIVE digits_value(_, _, _)
digits_value(chars, k, acc) ==
    IF k > Len(chars) THEN << acc >>
    ELSE IF to_digit(chars[k]) = << >> THEN << >>
         ELSE digits_value(chars, k + 1, 10 * acc + to_digit(chars[k])[1])

parse_usize(chars) ==
    LET body == IF chars # << >> /\ chars[1] = "+"
                THEN SubSeq(chars, 2, Len(chars)) ELSE chars
    IN  IF body = << >> THEN << >> ELSE digits_value(body, 1, 0)

\* parse_fen: [ok |-> TRUE, state |-> State] or [ok |-> FALSE, err |-> message].
parse_fen(parts) ==
    IF Len(parts) # 6
    THEN [ok |-> FALSE, err |-> "Invalid FEN string: incorrect number of fields"]
    ELSE
      LET ranks == split_slash(parts[1], 1, << >>)
      IN  IF Len(ranks) # 8
          THEN [ok |-> FALSE, err |-> "Invalid FEN string: incorrect number of ranks"]
          ELSE
            LET parsed == parse_ranks(ranks, 1, << >>)
            IN  IF ~parsed.ok THEN parsed
                ELSE IF parts[2] \notin {<< "w" >>, << "b" >>}
                THEN [ok |-> FALSE, err |-> "Invalid active color in FEN"]
                ELSE IF parse_usize(parts[5]) = << >>
                THEN [ok |-> FALSE, err |-> "Invalid halfmove clock in FEN"]
                ELSE [ok |-> TRUE,
                      state |-> NewState(NewPieceList(parsed.pieces),
                                         parse_usize(parts[5])[1],
                                         parts[2] = << "w" >>)]

\* The Vec parse_fen hands to PieceList::new: the pieces in the order the
\* description names them (rank 8 first, files left to right).
supplied_pieces(parts) ==
    parse_ranks(split_slash(parts[1], 1, << >>), 1, << >>).pieces

\* The fields of a description whose board is `board`, active colour `active`.
Fen(board, active) ==
    << board, << active >>, << "-" >>, << "-" >>, << "0" >>, << "1" >> >>

\* "rnbqkbnr/pppppppp/8/8/8/8/PPPPPPPP/RNBQKBNR w KQkq - 0 1"
default_fen ==
    << << "r", "n", "b", "q", "k", "b", "n", "r", "/",
          "p", "p", "p", "p", "p", "p", "p", "p", "/",
          "8", "/", "8", "/", "8", "/", "8", "/",
          "P", "P", "P", "P", "P", "P", "P", "P", "/",
          "R", "N", "B", "Q", "K", "B", "N", "R" >>,
       << "w" >>, << "K", "Q", "k", "q" >>, << "-" >>, << "0" >>, << "1" >> >>

\* State::default
DefaultState == parse_fen(default_fen).state

\* ------------------------------------------------------------------------
\* Positions the caller starts from
\* ------------------------------------------------------------------------

\* "4k3/4p3/5N2/8/8/8/8/4K3 b - - 0 1": the white knight attacks e8.
CheckBoard ==
    << "4", "k", "3", "/", "4", "p", "3", "/", "5", "N", "2", "/",
       "8", "/", "8", "/", "8", "/", "8", "/", "4", "K", "3" >>

CheckFen == Fen(CheckBoard, "b")

\* "4k3/4p3/5N2/8/8/8/8/4K3 w - - 0 1": the same board with white to move.
CheckFenWhite == Fen(CheckBoard, "w")

\* "4k3/3p4/8/4P3/2P5/8/8/4K3 b - - 0 1"
PawnFen ==
    Fen(<< "4", "k", "3", "/", "3", "p", "4", "/", "8", "/",
           "4", "P", "3", "/", "2", "P", "5", "/", "8", "/", "8", "/",
           "4", "K", "3" >>, "b")

\* "4k3/8/8/8/8/8/8/R3K2R w - - 0 1"
CastleFen ==
    Fen(<< "4", "k", "3", "/", "8", "/", "8", "/", "8", "/", "8", "/",
           "8", "/", "8", "/", "R", "3", "K", "2", "R" >>, "w")

\* State::new(PieceList::new(..), 0, true) on pieces placed on files 0..7, the
\* files the castling code names: a white king between its two rooks on rank
\* 0, and a black knight that attacks the king's square.
ZeroBasedState ==
    NewState(NewPieceList(<< NewPiece("King", Point(4, 0), TRUE),
                             NewPiece("Rook", Point(0, 0), TRUE),
                             NewPiece("Rook", Point(7, 0), TRUE),
                             NewPiece("Knight", Point(5, 2), FALSE),
                             NewPiece("King", Point(4, 7), FALSE) >>),
             0, TRUE)

\* State::new(PieceList::new(..), 0, true): the black king on (1,1) is
\* attacked by the knight on (3,0) and each of the eight squares around it by
\* a white knight or the white king; black has no other piece. White to move.
MateState ==
    NewState(NewPieceList(<< NewPiece("King", Point(1, 3), TRUE),
                             NewPiece("Knight", Point(1, -1), TRUE),
                             NewPiece("Knight", Point(1, -2), TRUE),
                             NewPiece("Knight", Point(3, 1), TRUE),
                             NewPiece("Knight", Point(3, 0), TRUE),
                             NewPiece("King", Point(1, 1), FALSE) >>),
             0, TRUE)

StartStates ==
    { parse_fen(CheckFen).state, parse_fen(PawnFen).state,
      parse_fen(CastleFen).state, ZeroBasedState }

\* ------------------------------------------------------------------------
\* The caller's inputs
\* ------------------------------------------------------------------------

\* Displacements of the candidate moves a caller builds.
Deltas ==
    { Point(0, 0), Point(0, 1), Point(0, -1), Point(0, 2), Point(0, -2),
      Point(1, 1), Point(-1, 1), Point(1, -1), Point(-1, -1),
      Point(1, 0), Point(-1, 0), Point(2, 0), Point(-2, 0), Point(1, 2) }

\* A square no start position has a piece on.
SpareSquare == Point(2, 6)

Flags == {"plain", "castling", "en_passant", "promotion"}

FromSquares(s) ==
    {s.pieces.list[i].position : i \in 1..Len(s.pieces.list)} \cup {SpareSquare}

\* The piece a caller hands to Move::new: the one it finds on `from`, or the
\* first piece of the list when the square is empty.
SnapshotFor(s, from) ==
    LET p == get_piece_at(s.pieces, from.x, from.y)
    IN  IF p = << >> THEN s.pieces.list[1] ELSE p[1]

BuildMove(s, from, to, flag) ==
    LET m == NewMove(from, to, SnapshotFor(s, from))
    IN  CASE flag = "castling" -> set_castling(m)
          [] flag = "en_passant" -> set_en_passant(m)
          [] flag = "promotion" -> with_promotion(m, "Queen")
          [] OTHER -> m

\* Move::is_legal returns on this input: the castling path scan, when it is
\* reached, meets the rook file.
is_legal_returns(m, s) ==
    (/\ m.is_castling
     /\ m.from # m.to
     /\ is_piece_valid(m, s)
     /\ ~get_piece_at(s.pieces, m.from.x, m.from.y)[1].moved)
    => castling_scan_ends(m)

\* The number of predecessors reachable through previous_state.
RECURSIVE history_len(_)
history_len(s) ==
    IF s.previous_state = << >> THEN 0
    ELSE 1 + history_len(s.previous_state[1])

\* ------------------------------------------------------------------------
\* The state machine: one caller, one call at a time
\* ------------------------------------------------------------------------

VARIABLES
    state,   \* the State the caller holds
    mv,      \* Option<Move>: the Move value the caller holds
    calls,   \* how many times is_legal was called on mv
    ret,     \* what the last call returned: [op, val]
    glm,     \* the get_legal_moves call in progress
    gen,     \* a MoveGenerator a caller drives itself, and what it returned
    fen,     \* a board description handed to parse_fen, and the result
    sum      \* two Points handed to Point::checked_add, and the result

\* What the caller of the State methods holds, and what the callers of the
\* generator, the parser and the Point arithmetic hold.
state_vars == << state, mv, calls, ret, glm >>
unit_vars == << gen, fen, sum >>
vars == << state, mv, calls, ret, glm, gen, fen, sum >>

NoRet == [op |-> "none", val |-> FALSE]

GlmIdle ==
    [pc |-> "idle", caller |-> [op |-> "none"], index |-> 0, generator |-> << >>,
     legal_moves |-> << >>]

\* get_legal_moves as it is entered, on behalf of `caller`: the caller of
\* the State methods itself, or is_checkmate(color).
GlmEntered(caller) ==
    [pc |-> "pieces", caller |-> caller, index |-> 0, generator |-> << >>,
     legal_moves |-> << >>]

\* No generator, description or sum in a caller's hands.
NoUnit == [op |-> "none"]

UnitsIdle ==
    /\ gen = NoUnit
    /\ fen = NoUnit
    /\ sum = NoUnit

\* The caller holds one of the States of S and nothing else.
StateInit(S) ==
    /\ state \in S
    /\ mv = << >>
    /\ calls = 0
    /\ ret = NoRet
    /\ glm = GlmIdle

InitFrom(S) ==
    /\ StateInit(S)
    /\ UnitsIdle

Init == InitFrom(StartStates)

\* The caller builds a Move with Move::new and the optional annotations.
CallerBuildsMove ==
    /\ glm.pc = "idle"
    /\ mv = << >>
    /\ \E from \in FromSquares(state), d \in Deltas, flag \in Flags :
          mv' = << BuildMove(state, from, PointAdd(from, d), flag) >>
    /\ calls' = 0
    /\ ret' = NoRet
    /\ UNCHANGED << state, glm >>
    /\ UNCHANGED unit_vars

\* The caller drops the Move it holds.
CallerDropsMove ==
    /\ glm.pc = "idle"
    /\ mv # << >>
    /\ mv' = << >>
    /\ calls' = 0
    /\ ret' = NoRet
    /\ UNCHANGED << state, glm >>
    /\ UNCHANGED unit_vars

\* mv.is_legal(&state)
CallIsLegal ==
    /\ glm.pc = "idle"
    /\ mv # << >>
    /\ calls < MaxCalls
    /\ is_legal_returns(mv[1], state)
    /\ LET r == is_legal(mv[1], state)
       IN  /\ mv' = << r.self >>
           /\ ret' = [op |-> "is_legal", val |-> r.ret]
    /\ calls' = calls + 1
    /\ UNCHANGED << state, glm >>
    /\ UNCHANGED unit_vars

\* make_move working on the caller's State in place.
CallMakeMove_in_place ==
    /\ glm.pc = "idle"
    /\ mv # << >>
    /\ ret' = [op |-> "make_move", val |-> make_move(state, mv[1])]
    /\ state' = make_move(state, mv[1])
    /\ UNCHANGED << mv, calls, glm >>
    /\ UNCHANGED unit_vars

\* state.make_move(mv.clone())
CallMakeMove ==
    /\ glm.pc = "idle"
    /\ mv # << >>
    /\ ret' = [op |-> "make_move", val |-> make_move(state, mv[1])]
    /\ UNCHANGED << state, mv, calls, glm >>
    /\ UNCHANGED unit_vars

\* A second successor of the predecessor the caller's State is linked to:
\* state.previous_state.make_move(mv.clone()), while the caller keeps `state`.
CallMakeMoveOnPredecessor ==
    /\ glm.pc = "idle"
    /\ mv # << >>
    /\ state.previous_state # << >>
    /\ ret' = [op |-> "make_move_on_predecessor",
               val |-> make_move(state.previous_state[1], mv[1])]
    /\ UNCHANGED << state, mv, calls, glm >>
    /\ UNCHANGED unit_vars

\* The caller applies one of the moves get_legal_moves returned and goes on
\* with the successor: state.make_move(legal_moves[k].clone()).
Descend ==
    /\ glm.pc = "idle"
    /\ ret.op = "get_legal_moves"
    /\ history_len(state) < MaxPly
    /\ \E k \in 1..Len(ret.val) : state' = make_move(state, ret.val[k])
    /\ mv' = << >>
    /\ calls' = 0
    /\ ret' = NoRet
    /\ UNCHANGED glm
    /\ UNCHANGED unit_vars

\* state.is_king_in_check(color)
CallIsKingInCheck ==
    /\ glm.pc = "idle"
    /\ mv = << >>
    /\ \E color \in BOOLEAN :
          ret' = [op |-> "is_king_in_check", color |-> color,
                  val |-> is_king_in_check(state, color)]
    /\ UNCHANGED << state, mv, calls, glm >>
    /\ UNCHANGED unit_vars

\* state.get_legal_moves() is entered.
GlmStart ==
    /\ glm.pc = "idle"
    /\ mv = << >>
    /\ ret.op = "none"
    /\ glm' = GlmEntered([op |-> "get_legal_moves"])
    /\ UNCHANGED << state, mv, calls, ret >>
    /\ UNCHANGED unit_vars

\* The indices after `index` of the pieces the filter of get_legal_moves lets
\* through.
RemainingPieces(s, index) ==
    {i \in (index + 1)..Len(s.pieces.list) :
        s.pieces.list[i].color = s.to_move /\ s.pieces.list[i].alive}

\* The iterator moves on to the next alive piece of the side to move and
\* generate_legal_moves_for_piece builds its MoveGenerator.
GlmNextPiece ==
    /\ glm.pc = "pieces"
    /\ RemainingPieces(state, glm.index) # {}
    /\ LET i == CHOOSE i \in RemainingPieces(state, glm.index) :
                    \A j \in RemainingPieces(state, glm.index) : i <= j
       IN  glm' = [glm EXCEPT !.pc = "generate",
                              !.index = i,
                              !.generator = << NewMoveGenerator(state.pieces.list[i]) >>]
    /\ UNCHANGED << state, mv, calls, ret >>
    /\ UNCHANGED unit_vars

\* One turn of the loop of generate_legal_moves_for_piece: generator.next(),
\* and for a destination the candidate is built, validated and kept if legal.
\* The operator gives the call's progress record after the turn. Of the moves
\* pushed, the first MaxLegalMoves are recorded; the loop itself goes on.
generate_turn(s, g) ==
    LET n == generator_next(g.generator[1])
        piece == s.pieces.list[g.index]
    IN  IF n.out = << >>
        THEN [g EXCEPT !.pc = "pieces", !.generator = << >>]
        ELSE LET r == is_legal(NewMove(piece.position, n.out[1], piece), s)
             IN  [g EXCEPT
                    !.generator = << n.gen >>,
                    !.legal_moves = IF r.ret /\ Len(@) < MaxLegalMoves
                                    THEN Append(@, r.self)
                                    ELSE @]

GlmGenerate ==
    /\ glm.pc = "generate"
    /\ glm' = generate_turn(state, glm)
    /\ UNCHANGED << state, mv, calls, ret >>
    /\ UNCHANGED unit_vars

\* state.is_checkmate(color): is_king_in_check(color) first, and only when it
\* is true get_legal_moves(), whose result is tested for emptiness.
CallIsCheckmate ==
    /\ glm.pc = "idle"
    /\ mv = << >>
    /\ ret.op = "none"
    /\ \E color \in BOOLEAN :
          IF is_king_in_check(state, color)
          THEN glm' = GlmEntered([op |-> "is_checkmate", color |-> color])
               /\ ret' = ret
          ELSE glm' = glm
               /\ ret' = [op |-> "is_checkmate", color |-> color, val |-> FALSE]
    /\ UNCHANGED << state, mv, calls >>
    /\ UNCHANGED unit_vars

\* get_legal_moves returns the collected moves, to the caller or to
\* is_checkmate, which returns whether there are none.
GlmReturn ==
    /\ glm.pc = "pieces"
    /\ RemainingPieces(state, glm.index) = {}
    /\ ret' = IF glm.caller.op = "is_checkmate"
              THEN [op |-> "is_checkmate", color |-> glm.caller.color,
                    val |-> glm.legal_moves = << >>]
              ELSE [op |-> "get_legal_moves", val |-> glm.legal_moves]
    /\ glm' = GlmIdle
    /\ UNCHANGED << state, mv, calls >>
    /\ UNCHANGED unit_vars

\* The caller takes one of the moves get_legal_moves returned.
CallerPicksLegalMove ==
    /\ glm.pc = "idle"
    /\ ret.op = "get_legal_moves"
    /\ \E k \in 1..Len(ret.val) : mv' = << ret.val[k] >>
    /\ calls' = 0
    /\ ret' = NoRet
    /\ UNCHANGED << state, glm >>
    /\ UNCHANGED unit_vars

Next ==
    \/ CallerBuildsMove
    \/ CallerDropsMove
    \/ CallIsLegal
    \/ CallMakeMove
    \/ CallMakeMoveOnPredecessor
    \/ Descend
    \/ CallIsKingInCheck
    \/ CallIsCheckmate
    \/ GlmStart
    \/ GlmNextPiece
    \/ GlmGenerate
    \/ GlmReturn
    \/ CallerPicksLegalMove

Spec == Init /\ [][Next]_vars

\* get_legal_moves alone, run to completion: the call is not interrupted, so
\* its steps are taken as long as one is enabled.
NextGlm ==
    \/ GlmStart
    \/ GlmNextPiece
    \/ GlmGenerate
    \/ GlmReturn

\* A turn of the loop is enabled and changes the call's progress record: the
\* enabling condition of << GlmGenerate >>_vars, written as a state predicate.
GlmGenerateAdvances ==
    /\ glm.pc = "generate"
    /\ generate_turn(state, glm) # glm

\* Weak fairness of every step of the call. For GlmGenerate it is written out
\* with GlmGenerateAdvances in the place of ENABLED << GlmGenerate >>_vars.
GlmFairness ==
    /\ WF_vars(GlmStart)
    /\ WF_vars(GlmNextPiece)
    /\ WF_vars(GlmReturn)
    /\ ([]<>(~GlmGenerateAdvances) \/ []<><< GlmGenerate >>_vars)

SpecGlm ==
    /\ InitFrom({DefaultState, parse_fen(CheckFen).state,
                 parse_fen(PawnFen).state})
    /\ [][NextGlm]_vars
    /\ GlmFairness

\* is_checkmate and get_legal_moves alone, on positions where a king is
\* attacked while the other side is to move.
NextMate ==
    \/ CallIsCheckmate
    \/ GlmStart
    \/ GlmNextPiece
    \/ GlmGenerate
    \/ GlmReturn

SpecMate ==
    /\ InitFrom({MateState, parse_fen(CheckFenWhite).state,
                 parse_fen(CheckFen).state})
    /\ [][NextMate]_vars

\* ------------------------------------------------------------------------
\* A caller driving a MoveGenerator itself
\* ------------------------------------------------------------------------

\* Where the pieces stand whose generators are driven: away from every edge
\* of the coordinate space, on an edge, and one step from an edge.
GenPositions ==
    { Point(4, 4),
      Point(CoordMax, 4), Point(CoordMin, 4),
      Point(4, CoordMax), Point(4, CoordMin),
      Point(CoordMax - 1, 4) }

GenPieces ==
    {NewPiece(form, position, color) :
        form \in PieceType \ {"Null"}, position \in GenPositions,
        color \in BOOLEAN}

\* MoveGenerator::new(&piece); no call of next() made yet.
GenInit ==
    /\ StateInit({ZeroBasedState})
    /\ \E piece \in GenPieces :
          gen = [op |-> "generator", piece |-> piece,
                 g |-> NewMoveGenerator(piece),
                 n |-> 0, emitted |-> 0, out |-> << >>]
    /\ fen = NoUnit
    /\ sum = NoUnit

\* generator.next(): n counts the calls, emitted those that returned a Point,
\* out is what the last call returned.
GenNext ==
    /\ gen.op = "generator"
    /\ gen.n < MaxGenCalls
    /\ LET r == generator_next(gen.g)
       IN  gen' = [gen EXCEPT !.g = r.gen,
                              !.n = @ + 1,
                              !.emitted = IF r.out = << >> THEN @ ELSE @ + 1,
                              !.out = r.out]
    /\ UNCHANGED << state_vars, fen, sum >>

SpecGen == GenInit /\ [][GenNext]_vars

\* ------------------------------------------------------------------------
\* parse_fen called on board descriptions, well-formed and not
\* ------------------------------------------------------------------------

\* Ranks a description is put together from.
EmptyRank == << "8" >>
BlackKingRank == << "4", "k", "3" >>
WhiteKingRank == << "4", "K", "3" >>

\* The first field of a description: its ranks joined by '/'.
RECURSIVE join_slash(_)
join_slash(ranks) ==
    IF Len(ranks) = 0 THEN << >>
    ELSE IF Len(ranks) = 1 THEN ranks[1]
    ELSE ranks[1] \o << "/" >> \o join_slash(Tail(ranks))

\* A board of eight ranks: kings on e8 and e1, `second` as the seventh rank.
BoardWith(first, second) ==
    join_slash(<< first, second, EmptyRank, EmptyRank, EmptyRank, EmptyRank,
                  EmptyRank, WhiteKingRank >>)

FenBoards ==
    { BoardWith(BlackKingRank, EmptyRank),                \* 4k3/8/8/8/8/8/8/4K3
      CheckBoard,
      BoardWith(BlackKingRank, << "p", "p", "p", "p", "p", "p", "p", "p" >>),
      join_slash(<< BlackKingRank, EmptyRank, EmptyRank, EmptyRank, EmptyRank,
                    EmptyRank, WhiteKingRank >>),       \* seven ranks
      join_slash(<< BlackKingRank, EmptyRank, EmptyRank, EmptyRank, EmptyRank,
                    EmptyRank, EmptyRank, EmptyRank, WhiteKingRank >>),  \* nine
      BoardWith(<< "4", "x", "3" >>, EmptyRank),          \* unknown letter
      BoardWith(<< "4", "k", "4" >>, EmptyRank),          \* nine files
      BoardWith(<< "4", "k", "2" >>, EmptyRank),          \* seven files
      BoardWith(BlackKingRank, << "9" >>),                \* nine files, no piece
      BoardWith(BlackKingRank, << >>) }                   \* a rank of no file

FenActiveColors == { << "w" >>, << "b" >>, << "x" >>, << "W" >> }

FenHalfmoves == { << "0" >>, << "1", "2" >>, << "x" >>, << "-", "1" >> }

\* Descriptions of five, six and seven fields.
FenInputs ==
    UNION { { << board, active, << "-" >>, << "-" >>, half >>,
              << board, active, << "-" >>, << "-" >>, half, << "1" >> >>,
              << board, active, << "-" >>, << "-" >>, half, << "1" >>, << "1" >> >> } :
            << board, active, half >> \in
                FenBoards \X FenActiveColors \X FenHalfmoves }

\* A caller about to hand a description to parse_fen.
FenInit ==
    /\ StateInit({ZeroBasedState})
    /\ gen = NoUnit
    /\ sum = NoUnit
    /\ \E parts \in FenInputs :
          fen = [op |-> "parse_fen", parts |-> parts, pc |-> "call", out |-> << >>]

\* parse_fen(fen): out holds the Result it returned.
CallParseFen ==
    /\ fen.op = "parse_fen"
    /\ fen.pc = "call"
    /\ fen' = [fen EXCEPT !.pc = "done", !.out = << parse_fen(fen.parts) >>]
    /\ UNCHANGED << state_vars, gen, sum >>

SpecFen == FenInit /\ [][CallParseFen]_vars

\* ------------------------------------------------------------------------
\* Point::checked_add called on points near and at the ends of the range
\* ------------------------------------------------------------------------

SumCoords == {CoordMin, CoordMin + 1, -1, 0, 1, CoordMax - 1, CoordMax}

SumPoints == {Point(x, y) : x \in SumCoords, y \in SumCoords}

\* A caller about to add two points.
SumInit ==
    /\ StateInit({ZeroBasedState})
    /\ gen = NoUnit
    /\ fen = NoUnit
    /\ \E p \in SumPoints, q \in SumPoints :
          sum = [op |-> "checked_add", p |-> p, q |-> q, pc |-> "call",
                 out |-> << >>]

\* p.checked_add(q): out holds the Option it returned.
CallCheckedAdd ==
    /\ sum.op = "checked_add"
    /\ sum.pc = "call"
    /\ sum' = [sum EXCEPT !.pc = "done", !.out = checked_add(sum.p, sum.q)]
    /\ UNCHANGED << state_vars, gen, fen >>

SpecSum == SumInit /\ [][CallCheckedAdd]_vars

\* ------------------------------------------------------------------------
\* The Point operators called on points near and at the ends of the range
\* ------------------------------------------------------------------------

OpCoords == {CoordMin, -7, -1, 2, CoordMax}

OpPoints == {Point(x, y) : x \in OpCoords, y \in OpCoords}

OpScalars == {-3, -1, 0, 2, 3}

\* A caller holding three points and a scalar, about to apply one operator.
OpsInit ==
    /\ StateInit({ZeroBasedState})
    /\ gen = NoUnit
    /\ fen = NoUnit
    /\ \E p \in OpPoints, q \in OpPoints, r \in {Point(1, 1), Point(-7, 2)},
          value \in OpScalars :
          sum = [op |-> "operators", p |-> p, q |-> q, r |-> r,
                 value |-> value, pc |-> "call", f |-> "none", out |-> << >>]

OpReturns(f, outcomes) ==
    /\ sum.op = "operators"
    /\ sum.pc = "call"
    /\ \E o \in outcomes :
          sum' = [sum EXCEPT !.pc = "done", !.f = f, !.out = << o >>]
    /\ UNCHANGED << state_vars, gen, fen >>

\* p + q
CallAdd == OpReturns("add", point_add(sum.p, sum.q))

\* p - q
CallSub == OpReturns("sub", point_sub(sum.p, sum.q))

\* p * value
CallMul == OpReturns("mul", point_mul(sum.p, sum.value))

\* p / value
CallDiv == OpReturns("div", point_div(sum.p, sum.value))

\* (p + q) * 2 - r
CallChain == OpReturns("chain", point_chain(sum.p, sum.q, sum.r))

NextOps == CallAdd \/ CallSub \/ CallMul \/ CallDiv \/ CallChain

SpecOps == OpsInit /\ [][NextOps]_vars

\* ------------------------------------------------------------------------
\* The shape step of is_legal (is_basic_move_legal) on candidate moves
\* ------------------------------------------------------------------------

\* "4k3/8/8/8/8/3N1p2/4P3/4K3": the white pawn e2 has its own knight on d3
\* and a black pawn on f3 diagonally ahead.
ShapePawnBoard ==
    << "4", "k", "3", "/", "8", "/", "8", "/", "8", "/", "8", "/",
       "3", "N", "1", "p", "2", "/", "4", "P", "3", "/", "4", "K", "3" >>

\* "4k3/8/8/8/3p4/8/1B1Q3R/4K3": white bishop b2, queen d2 and rook h2, a
\* black pawn on d4.
ShapeSliderBoard ==
    << "4", "k", "3", "/", "8", "/", "8", "/", "8", "/", "3", "p", "4", "/",
       "8", "/", "1", "B", "1", "Q", "3", "R", "/", "4", "K", "3" >>

\* State::new(PieceList::new(..), 0, false) on ranks 0..7, the ranks the
\* en-passant code names: a white pawn on (4,4), a black pawn on (3,6) that
\* can pass it, a black rook on (1,4). Black to move.
EnPassantStart ==
    NewState(NewPieceList(<< NewPiece("King", Point(4, 0), TRUE),
                             NewPiece("Pawn", Point(4, 4), TRUE),
                             NewPiece("King", Point(4, 7), FALSE),
                             NewPiece("Pawn", Point(3, 6), FALSE),
                             NewPiece("Rook", Point(1, 4), FALSE) >>),
             0, FALSE)

\* The black pawn's two-square advance (3,6)->(3,4), as is_legal leaves it.
DoubleAdvanceMove ==
    is_legal(NewMove(Point(3, 6), Point(3, 4),
                     get_piece_at(EnPassantStart.pieces, 3, 6)[1]),
             EnPassantStart).self

AfterDoubleAdvance == make_move(EnPassantStart, DoubleAdvanceMove)

\* The white pawn's en-passant capture (4,4)->(3,5), as is_legal leaves it.
EnPassantMove ==
    is_legal(set_en_passant(NewMove(Point(4, 4), Point(3, 5),
                                    get_piece_at(AfterDoubleAdvance.pieces, 4, 4)[1])),
             AfterDoubleAdvance).self

\* The position after the en-passant capture: the black pawn is left on
\* (3,4), not alive. Black to move.
AfterEnPassant == make_move(AfterDoubleAdvance, EnPassantMove)

ShapeStates ==
    { parse_fen(Fen(ShapePawnBoard, "w")).state,
      parse_fen(Fen(ShapePawnBoard, "b")).state,
      parse_fen(Fen(ShapeSliderBoard, "w")).state,
      AfterDoubleAdvance,
      AfterEnPassant }

MaxReach == 3

\* Displacements of the candidate moves: every square up to MaxReach away.
ShapeDeltas == {Point(dx, dy) : dx \in -MaxReach..MaxReach, dy \in -MaxReach..MaxReach}

\* The caller builds a candidate, plain or flagged en passant.
ShapeBuildsMove ==
    /\ mv = << >>
    /\ \E from \in FromSquares(state), d \in ShapeDeltas,
          flag \in {"plain", "en_passant"} :
          mv' = << BuildMove(state, from, PointAdd(from, d), flag) >>
    /\ calls' = 0
    /\ ret' = NoRet
    /\ UNCHANGED << state, glm >>
    /\ UNCHANGED unit_vars

\* is_legal up to its shape step: past the from == to and is_piece_valid
\* tests, update_captured_piece, then is_basic_move_legal.
CallIsBasicMoveLegal ==
    /\ mv # << >>
    /\ ret.op = "none"
    /\ mv[1].from # mv[1].to
    /\ is_piece_valid(mv[1], state)
    /\ LET self1 == update_captured_piece(refresh_piece(mv[1], state), state)
       IN  /\ mv' = << self1 >>
           /\ ret' = [op |-> "is_basic_move_legal",
                      val |-> is_basic_move_legal(self1, state)]
    /\ UNCHANGED << state, calls, glm >>
    /\ UNCHANGED unit_vars

NextShape == ShapeBuildsMove \/ CallerDropsMove \/ CallIsBasicMoveLegal

SpecShape == InitFrom(ShapeStates) /\ [][NextShape]_vars

\* ------------------------------------------------------------------------
\* make_move on positions that follow a pawn's advance
\* ------------------------------------------------------------------------

\* d7-d5 on PawnFen, as is_legal leaves it.
PawnAdvanceMove ==
    is_legal(NewMove(Point(4, 7), Point(4, 5),
                     get_piece_at(parse_fen(PawnFen).state.pieces, 4, 7)[1]),
             parse_fen(PawnFen).state).self

\* PawnFen after d7-d5: the black pawn stands beside the white pawn on e5.
\* White to move.
AfterPawnAdvance == make_move(parse_fen(PawnFen).state, PawnAdvanceMove)

\* c4xd5 on that position, as is_legal leaves it.
PawnTakesMove ==
    is_legal(NewMove(Point(3, 4), Point(4, 5),
                     get_piece_at(AfterPawnAdvance.pieces, 3, 4)[1]),
             AfterPawnAdvance).self

\* PawnFen after d7-d5, c4xd5. Black to move.
AfterPawnTakes == make_move(AfterPawnAdvance, PawnTakesMove)

\* Ke1-e2 on the position after d7-d5, as is_legal leaves it.
KingStepMove ==
    is_legal(NewMove(Point(5, 1), Point(5, 2),
                     get_piece_at(AfterPawnAdvance.pieces, 5, 1)[1]),
             AfterPawnAdvance).self

\* PawnFen after d7-d5, Ke1-e2: the black pawn on d5 has moved and black is
\* to move.
AfterKingStep == make_move(AfterPawnAdvance, KingStepMove)

EnPassantStates == {AfterDoubleAdvance, AfterPawnAdvance, AfterPawnTakes}

NextEnPassant == CallerBuildsMove \/ CallerDropsMove \/ CallMakeMove

SpecEnPassant == InitFrom(EnPassantStates) /\ [][NextEnPassant]_vars

\* ------------------------------------------------------------------------
\* A caller that keeps its Move across make_move
\* ------------------------------------------------------------------------

\* state = state.make_move(mv.clone()) for a move is_legal accepted: the
\* caller goes on with the successor and still holds the Move.
CallerAppliesMove ==
    /\ glm.pc = "idle"
    /\ mv # << >>
    /\ mv[1].is_legal
    /\ history_len(state) < MaxPly
    /\ state' = make_move(state, mv[1])
    /\ calls' = 0
    /\ ret' = NoRet
    /\ UNCHANGED << mv, glm >>
    /\ UNCHANGED unit_vars

\* "4k3/8/8/8/8/8/4p3/4K3 w - - 0 1": a black pawn stands next to the white
\* king, which is to move.
KingTakesFen ==
    Fen(<< "4", "k", "3", "/", "8", "/", "8", "/", "8", "/", "8", "/",
           "8", "/", "4", "p", "3", "/", "4", "K", "3" >>, "w")

\* The positions the caller starts from; AfterEnPassant has a not-alive pawn
\* alone on its square, AfterKingStep a moved pawn of the side to move.
KeepStates ==
    StartStates \cup {parse_fen(KingTakesFen).state, AfterEnPassant,
                       AfterKingStep}

NextKeep == CallerBuildsMove \/ CallerDropsMove \/ CallIsLegal \/ CallerAppliesMove

SpecKeep == InitFrom(KeepStates) /\ [][NextKeep]_vars

\* ------------------------------------------------------------------------
\* The two-square-advance tests on ranks of the wide coordinate domain
\* ------------------------------------------------------------------------

\* Ranks around zero and around the ends of the i8 and u8 ranges.
RankValues == {-130, -129, -128, -2, 0, 2, 126, 127, 128, 129, 254, 256, 258}

\* A move from rank from_y to rank to_y, about to be tested.
RanksInit ==
    /\ StateInit({ZeroBasedState})
    /\ gen = NoUnit
    /\ fen = NoUnit
    /\ \E from_y \in RankValues, to_y \in RankValues :
          sum = [op |-> "ranks", from_y |-> from_y, to_y |-> to_y,
                 pc |-> "call", f |-> "none", out |-> << >>]

\* The test of update_en_passant_target on the move being made.
CallTargetTest ==
    /\ sum.op = "ranks"
    /\ sum.pc = "call"
    /\ \E o \in two_square_test(sum.to_y, sum.from_y) :
          sum' = [sum EXCEPT !.pc = "done", !.f = "update_en_passant_target",
                             !.out = << o >>]
    /\ UNCHANGED << state_vars, gen, fen >>

\* The test of is_legal_en_passant on the state's last move.
CallLastMoveTest ==
    /\ sum.op = "ranks"
    /\ sum.pc = "call"
    /\ \E o \in two_square_test(sum.to_y, sum.from_y) :
          sum' = [sum EXCEPT !.pc = "done", !.f = "is_legal_en_passant",
                             !.out = << o >>]
    /\ UNCHANGED << state_vars, gen, fen >>

NextRanks == CallTargetTest \/ CallLastMoveTest

SpecRanks == RanksInit /\ [][NextRanks]_vars

\* ------------------------------------------------------------------------
\* Notions the claims are stated with
\* ------------------------------------------------------------------------

OnBoard(p) == 1 <= p.x /\ p.x <= 8 /\ 1 <= p.y /\ p.y <= 8

\* How many moves of a list land inside 1..8 x 1..8.
InBoardCount(moves) == Cardinality({k \in 1..Len(moves) : OnBoard(moves[k].to)})

\* Piece p, by its shape alone, attacks square sq in state s.
ShapeAttacks(s, p, sq) ==
    LET dx == sq.x - p.position.x
        dy == sq.y - p.position.y
        line == NewMove(p.position, sq, p)
    IN  /\ sq # p.position
        /\ CASE p.form = "Pawn" ->
                  Abs(dx) = 1 /\ dy = (IF p.color THEN 1 ELSE -1)
             [] p.form = "Knight" ->
                  (Abs(dx) = 1 /\ Abs(dy) = 2) \/ (Abs(dx) = 2 /\ Abs(dy) = 1)
             [] p.form = "King" -> Abs(dx) <= 1 /\ Abs(dy) <= 1
             [] p.form = "Bishop" ->
                  Abs(dx) = Abs(dy) /\ is_path_clear(line, s)
             [] p.form = "Rook" ->
                  (dx = 0 \/ dy = 0) /\ is_path_clear(line, s)
             [] p.form = "Queen" ->
                  (Abs(dx) = Abs(dy) \/ dx = 0 \/ dy = 0) /\ is_path_clear(line, s)
             [] OTHER -> FALSE

\* Some alive piece of colour `by` attacks square sq.
SquareAttacked(s, sq, by) ==
    \E i \in 1..Len(s.pieces.list) :
        /\ s.pieces.list[i].color = by
        /\ s.pieces.list[i].alive
        /\ ShapeAttacks(s, s.pieces.list[i], sq)

\* The move's `from` square holds an alive king of the side to move.
MoverIsKing(s, m) ==
    LET p == get_piece_at(s.pieces, m.from.x, m.from.y)
    IN  p # << >> /\ p[1].form = "King" /\ p[1].alive /\ p[1].color = s.to_move

\* The unmoved rooks of the mover on the king's rank, on the side the king
\* moves to, with every square strictly between king and rook empty.
CastlingRooks(s, m) ==
    LET d == Signum(m.to.x - m.from.x)
    IN  {i \in 1..Len(s.pieces.list) :
           LET r == s.pieces.list[i]
           IN  /\ r.form = "Rook" /\ r.alive /\ ~r.moved
               /\ r.color = s.to_move
               /\ r.position.y = m.from.y
               /\ d # 0
               /\ (r.position.x - m.from.x) * d > 0
               /\ \A x \in (m.from.x - 8)..(m.from.x + 8) :
                     ((x - m.from.x) * d > 0 /\ (r.position.x - x) * d > 0)
                     => get_piece_at(s.pieces, x, m.from.y) = << >>}

\* The files from the king's start to its destination.
KingFiles(m) ==
    {x \in (m.from.x - 8)..(m.from.x + 8) :
        (x - m.from.x) * (x - m.to.x) <= 0}

\* The last move of s was a pawn's two-square advance.
LastWasDoubleAdvance(s) ==
    /\ s.last_move # << >>
    /\ s.last_move[1].piece.form = "Pawn"
    /\ s.last_move[1].to.x = s.last_move[1].from.x
    /\ Abs(s.last_move[1].to.y - s.last_move[1].from.y) = 2

\* The square the pawn of the last move passed over.
SkippedSquare(s) ==
    Point(s.last_move[1].to.x,
          (s.last_move[1].from.y + s.last_move[1].to.y) \div 2)

\* An alive pawn of the side to move stands on m.from, beside the pawn that
\* just advanced two squares, and m.to is the square that pawn skipped.
EnPassantSituation(s, m) ==
    LET p == get_piece_at(s.pieces, m.from.x, m.from.y)
    IN  /\ LastWasDoubleAdvance(s)
        /\ p # << >> /\ p[1].form = "Pawn" /\ p[1].alive
        /\ p[1].color = s.to_move
        /\ s.last_move[1].piece.color # s.to_move
        /\ m.from.y = s.last_move[1].to.y
        /\ Abs(m.from.x - s.last_move[1].to.x) = 1
        /\ m.to = SkippedSquare(s)

\* Applying m does not leave the mover's king attacked, as the code tests it.
KingSafeAfter(s, m) ==
    ~leaves_king_in_check(update_captured_piece(refresh_piece(m, s), s), s)

\* ------------------------------------------------------------------------
\* The claims
\* ------------------------------------------------------------------------

\* C1: from the standard initial position get_legal_moves() returns, and
\* returns exactly 20 moves.
C1_DefaultHasTwentyMoves ==
    (state = DefaultState /\ glm.pc = "pieces")
        ~> (ret.op = "get_legal_moves" /\ Len(ret.val) = 20)

\* C2: perft from the standard initial position; its first level: the call
\* returns and 20 of the returned moves land inside 1..8 x 1..8.
C2_PerftDepthOne ==
    (state = DefaultState /\ glm.pc = "pieces")
        ~> (ret.op = "get_legal_moves" /\ InBoardCount(ret.val) = 20)

\* C3: no move returned by get_legal_moves() leaves the mover's own king in
\* check in the successor make_move builds.
C3_LegalMovesKeepKingSafe ==
    ret.op = "get_legal_moves" =>
        \A k \in 1..Len(ret.val) :
            ~is_king_in_check(make_move(state, ret.val[k]), state.to_move)

\* C3 witness: get_legal_moves returned moves, and left out a candidate of an
\* alive piece of the side to move that passes the shape test.
C3_Witness ==
    /\ ret.op = "get_legal_moves"
    /\ Len(ret.val) > 0
    /\ \E i \in 1..Len(state.pieces.list) :
         LET p == state.pieces.list[i]
         IN  /\ p.color = state.to_move /\ p.alive
             /\ \E j \in 1..Len(p.offsets) :
                  LET m0 == NewMove(p.position, PointAdd(p.position, p.offsets[j]), p)
                      m1 == update_captured_piece(refresh_piece(m0, state), state)
                  IN  /\ is_piece_valid(m0, state)
                      /\ is_basic_move_legal(m1, state)
                      /\ ~is_legal(m0, state).ret

\* C4: the State make_move returns has the other side to move, one more move
\* counted, the State it was called on as previous_state and the move as
\* last_move.
C4_MakeMoveLinksSuccessor ==
    /\ ret.op = "make_move" =>
         /\ ret.val.to_move = ~state.to_move
         /\ ret.val.move_count = state.move_count + 1
         /\ ret.val.previous_state = << state >>
         /\ ret.val.last_move = mv
    /\ ret.op = "make_move_on_predecessor" =>
         /\ ret.val.to_move = ~state.previous_state[1].to_move
         /\ ret.val.move_count = state.previous_state[1].move_count + 1
         /\ ret.val.previous_state = state.previous_state
         /\ ret.val.last_move = mv
    /\ state.previous_state # << >> =>
         /\ state.to_move = ~state.previous_state[1].to_move
         /\ state.move_count = state.previous_state[1].move_count + 1
         /\ state.last_move # << >>

\* C4 witness: make_move was called on a State that has a predecessor itself.
C4_Witness ==
    /\ ret.op = "make_move"
    /\ state.previous_state # << >>
    /\ ret.val.pieces # state.pieces

\* C5: no call changes the State it is made on, and a second successor built
\* from a State that already has one shares that unchanged predecessor.
C5_CallsLeaveStateUnchanged ==
    [][ /\ (ret'.op # "none" \/ glm' # glm) => state' = state
        /\ ret'.op = "make_move_on_predecessor" =>
              ret'.val.previous_state = state'.previous_state
      ]_vars

\* C5 witness: two different successors of one predecessor exist side by side.
C5_Witness ==
    /\ ret.op = "make_move_on_predecessor"
    /\ ret.val.previous_state = state.previous_state
    /\ ret.val.pieces # state.pieces

\* C6: a further is_legal call on the same Move against the same State returns
\* what the call before it returned, and leaves the State as it was.
C6_IsLegalRepeats ==
    [][ (calls' = calls + 1 /\ ret.op = "is_legal") =>
            (ret'.val = ret.val /\ state' = state) ]_vars

\* C6 witness: is_legal was called twice on a capturing move and accepted it.
C6_Witness ==
    /\ calls = 2
    /\ ret.op = "is_legal"
    /\ ret.val
    /\ mv[1].captured_piece # << >>

\* C7: a castling-flagged king move toward an unmoved rook, with the squares
\* between them empty and the king attacked neither on its start square nor on
\* a square up to its destination, is accepted by is_legal.
C7_CastlingAccepted ==
    (/\ ret.op = "is_legal"
     /\ mv[1].is_castling
     /\ MoverIsKing(state, mv[1])
     /\ ~get_piece_at(state.pieces, mv[1].from.x, mv[1].from.y)[1].moved
     /\ mv[1].to.y = mv[1].from.y
     /\ \E i \in CastlingRooks(state, mv[1]) :
           Abs(mv[1].to.x - mv[1].from.x)
               <= Abs(state.pieces.list[i].position.x - mv[1].from.x)
     /\ \A x \in KingFiles(mv[1]) :
           ~SquareAttacked(state, Point(x, mv[1].from.y), ~state.to_move))
    => ret.val

\* C8: is_legal rejects a castling-flagged king move when the king has moved,
\* when it is attacked on its start square, or, for a move along the rank,
\* when no unmoved rook with an empty path stands on that side or a square the
\* king crosses is attacked.
C8_CastlingRejected ==
    (/\ ret.op = "is_legal"
     /\ mv[1].is_castling
     /\ MoverIsKing(state, mv[1])
     /\ \/ get_piece_at(state.pieces, mv[1].from.x, mv[1].from.y)[1].moved
        \/ SquareAttacked(state, mv[1].from, ~state.to_move)
        \/ /\ mv[1].to.x # mv[1].from.x
           /\ mv[1].to.y = mv[1].from.y
           /\ \/ CastlingRooks(state, mv[1]) = {}
              \/ \E x \in KingFiles(mv[1]) \ {mv[1].to.x} :
                    SquareAttacked(state, Point(x, mv[1].from.y), ~state.to_move))
    => ~ret.val

\* C9: after an enemy pawn's two-square advance beside a pawn of the side to
\* move, the en-passant-flagged move of that pawn onto the skipped square is
\* accepted by is_legal unless it exposes the mover's king.
C9_EnPassantAccepted ==
    (/\ ret.op = "is_legal"
     /\ mv[1].is_en_passant
     /\ EnPassantSituation(state, mv[1])
     /\ KingSafeAfter(state, mv[1]))
    => ret.val

\* C10: is_legal rejects an en-passant-flagged move when there is no preceding
\* move, when the preceding move was not a two-square pawn advance, when the
\* moving piece is not a pawn, or when the destination is not the square
\* skipped by a pawn that just advanced next to the mover.
C10_EnPassantRejected ==
    (/\ ret.op = "is_legal"
     /\ mv[1].is_en_passant
     /\ LET p == get_piece_at(state.pieces, mv[1].from.x, mv[1].from.y)
        IN  \/ state.last_move = << >>
            \/ ~LastWasDoubleAdvance(state)
            \/ p = << >>
            \/ p[1].form # "Pawn"
            \/ ~(/\ mv[1].from.y = state.last_move[1].to.y
                 /\ Abs(mv[1].from.x - state.last_move[1].to.x) = 1
                 /\ mv[1].to = SkippedSquare(state)))
    => ~ret.val

\* Some alive piece of the colour other than `color` has a move onto the
\* square of color's king that is_legal accepts with that piece's side to move.
EnemyCanTakeKing(s, color) ==
    LET king == IF color THEN get_white_king(s.pieces)
                ELSE get_black_king(s.pieces)
        enemy_to_move == [s EXCEPT !.to_move = ~color]
    IN  \E i \in 1..Len(s.pieces.list) :
            /\ s.pieces.list[i].color # color
            /\ s.pieces.list[i].alive
            /\ is_legal(NewMove(s.pieces.list[i].position, king.position,
                                s.pieces.list[i]), enemy_to_move).ret

\* C11: is_king_in_check(c) returns true exactly when an alive piece of the
\* other colour has a legal move onto the square of c's king, for the side to
\* move as for the other side.
C11_CheckIffKingCanBeTaken ==
    ret.op = "is_king_in_check" =>
        (ret.val <=> EnemyCanTakeKing(state, ret.color))

\* The destinations the generator of piece p emits near the origin: each
\* offset at multiplier 1, and for a sliding piece at every multiplier the
\* generator reaches.
EmittedDestinations(p) ==
    {PointAdd(p.position,
              Point(p.offsets[j].x * m, p.offsets[j].y * m)) :
        j \in 1..Len(p.offsets),
        m \in 1..(IF is_sliding(p.form) THEN I8Max ELSE 1)}

\* get_legal_moves() for side c is empty: with c to move, is_legal accepts no
\* candidate of an alive piece of c.
NoLegalMoveFor(s, c) ==
    LET c_to_move == [s EXCEPT !.to_move = c]
    IN  \A i \in 1..Len(s.pieces.list) :
            (s.pieces.list[i].color = c /\ s.pieces.list[i].alive) =>
                \A to \in EmittedDestinations(s.pieces.list[i]) :
                    ~is_legal(NewMove(s.pieces.list[i].position, to,
                                      s.pieces.list[i]), c_to_move).ret

\* C12: is_checkmate(c) returns true exactly when is_king_in_check(c) is true
\* and side c has no legal move.
C12_CheckmateIffCheckedAndStuck ==
    ret.op = "is_checkmate" =>
        (ret.val <=> (/\ is_king_in_check(state, ret.color)
                      /\ NoLegalMoveFor(state, ret.color)))

\* C13: every get_legal_moves() call that was entered returns.
C13_GetLegalMovesReturns ==
    (glm.pc = "pieces" /\ glm.index = 0) ~> (ret.op = "get_legal_moves")

\* The piece stands on the largest or smallest representable file or rank.
AtEdge(p) ==
    \/ p.x \in {CoordMin, CoordMax}
    \/ p.y \in {CoordMin, CoordMax}

RepresentablePoint(p) == Representable(p.x) /\ Representable(p.y)

\* C14: the generator of a sliding piece standing on an edge of the coordinate
\* space returns None from the end of its first ring of offsets on at the
\* latest, and every coordinate it holds or returns is representable.
C14_EdgeSliderTerminates ==
    (gen.op = "generator" /\ is_sliding(gen.piece.form)
        /\ AtEdge(gen.piece.position)) =>
        /\ RepresentablePoint(gen.g.current_position)
        /\ gen.out # << >> => RepresentablePoint(gen.out[1])
        /\ gen.n >= Len(gen.piece.offsets) => gen.out = << >>
        /\ gen.g.current_multiplier <= I8Max

\* C14 witness: a sliding piece on the smallest file whose generator returned
\* Points first and then None, call after call.
C14_Witness ==
    /\ gen.op = "generator"
    /\ is_sliding(gen.piece.form)
    /\ gen.piece.position.x = CoordMin
    /\ gen.emitted > 0
    /\ gen.n > gen.emitted + 1
    /\ gen.out = << >>

\* Every destination position + offset of the piece is representable.
AllDestinationsRepresentable(piece) ==
    \A j \in 1..Len(piece.offsets) :
        RepresentablePoint(PointAdd(piece.position, piece.offsets[j]))

\* The displacements of a knight's jumps and of a king's steps.
LJumps == {d \in (-2..2) \X (-2..2) : Abs(d[1]) * Abs(d[2]) = 2}
Neighbours == ((-1..1) \X (-1..1)) \ {<< 0, 0 >>}

OffsetSet(piece) ==
    {<< piece.offsets[j].x, piece.offsets[j].y >> : j \in 1..Len(piece.offsets)}

\* C15: the generator of a Pawn, Knight or King whose destinations are all
\* representable returns position + offsets[k] from its k-th call, for each
\* entry of the offset list, and None from every later call; a Knight has the
\* 8 L-jumps and a King the 8 neighbouring squares as offsets.
C15_StepperEmitsOffsetsOnce ==
    (gen.op = "generator" /\ ~is_sliding(gen.piece.form)
        /\ AllDestinationsRepresentable(gen.piece)) =>
        /\ (1 <= gen.n /\ gen.n <= Len(gen.piece.offsets)) =>
              gen.out = << PointAdd(gen.piece.position,
                                    gen.piece.offsets[gen.n]) >>
        /\ gen.n > Len(gen.piece.offsets) => gen.out = << >>
        /\ gen.emitted <= Len(gen.piece.offsets)
        /\ gen.piece.form = "Knight" =>
              (Len(gen.piece.offsets) = 8 /\ OffsetSet(gen.piece) = LJumps)
        /\ gen.piece.form = "King" =>
              (Len(gen.piece.offsets) = 8 /\ OffsetSet(gen.piece) = Neighbours)

\* C15 witness: a Knight's generator has returned its 8 destinations and then
\* None more than once.
C15_Witness ==
    /\ gen.op = "generator"
    /\ gen.piece.form = "Knight"
    /\ AllDestinationsRepresentable(gen.piece)
    /\ gen.emitted = 8
    /\ gen.n >= 10
    /\ gen.out = << >>

\* The point the n-th call (n = 0, 1, 2, ...) is to return for a piece with L
\* offsets: position + (floor(n / L) + 1) * offsets[n mod L].
RingPoint(piece, n) ==
    LET L == Len(piece.offsets)
        k == (n \div L) + 1
        offset == piece.offsets[(n % L) + 1]
    IN  Point(piece.position.x + k * offset.x, piece.position.y + k * offset.y)

\* C16: as long as every point of the ring sequence so far is representable,
\* the call numbered n of a sliding piece's generator returns the n-th point
\* of that sequence; it returns None only when a point of the sequence is not
\* representable.
C16_SliderFollowsRings ==
    (gen.op = "generator" /\ is_sliding(gen.piece.form) /\ gen.n >= 1) =>
        /\ (\A i \in 0..(gen.n - 1) : RepresentablePoint(RingPoint(gen.piece, i)))
              => gen.out = << RingPoint(gen.piece, gen.n - 1) >>
        /\ gen.out = << >> =>
              \E i \in 0..(gen.n - 1) : ~RepresentablePoint(RingPoint(gen.piece, i))


\* C17: make_move returns a successor State only for a Move whose from square
\* holds a piece of the state; called with a Move whose from square is empty
\* it returns nothing.
C17_MakeMoveNeedsPieceOnFrom ==
    (ret.op = "make_move" /\ mv # << >>) =>
        get_piece_at(state.pieces, mv[1].from.x, mv[1].from.y) # << >>


\* The number of files a rank string covers: a digit counts that many empty
\* files, any other character one file.
RECURSIVE FileCount(_)
FileCount(rank_str) ==
    IF rank_str = << >> THEN 0
    ELSE (IF to_digit(rank_str[1]) # << >> THEN to_digit(rank_str[1])[1] ELSE 1)
         + FileCount(Tail(rank_str))

IsDecimalNumber(chars) ==
    chars # << >> /\ \A k \in 1..Len(chars) : to_digit(chars[k]) # << >>

\* A board description that is malformed in one of the six listed ways.
MalformedDescription(parts) ==
    \/ Len(parts) # 6
    \/ LET ranks == split_slash(parts[1], 1, << >>)
       IN  \/ Len(ranks) # 8
           \/ \E r \in 1..Len(ranks) : \E k \in 1..Len(ranks[r]) :
                 /\ to_digit(ranks[r][k]) = << >>
                 /\ ranks[r][k] \notin UpperPieceLetters \cup LowerPieceLetters
           \/ \E r \in 1..Len(ranks) : FileCount(ranks[r]) # 8
    \/ parts[2] \notin { << "w" >>, << "b" >> }
    \/ ~IsDecimalNumber(parts[5])

\* C18: parse_fen returns an error, and no State, for every malformed board
\* description (wrong field count, wrong rank count, unknown piece letter, a
\* rank that does not cover exactly 8 files, bad active colour, non-numeric
\* half-move clock).
C18_MalformedDescriptionRejected ==
    (fen.op = "parse_fen" /\ fen.pc = "done" /\ MalformedDescription(fen.parts))
        => ~fen.out[1].ok


\* The descriptions the positions of SpecGlm are built from.
GlmFens == {default_fen, CheckFen, PawnFen}

\* The place of the piece standing on p in the supplied sequence.
SupplyIndex(supplied, p) ==
    CHOOSE i \in 1..Len(supplied) : supplied[i].position = p

\* The place of a move's destination in what its (non-sliding) mover's
\* generator emits: the index of the offset that leads from `from` to `to`.
EmissionIndex(m) ==
    CHOOSE k \in 1..Len(m.piece.offsets) :
        PointAdd(m.from, m.piece.offsets[k]) = m.to

\* C19: the list get_legal_moves() returns is grouped by piece, the pieces of
\* the colour to move in the order in which they were supplied when the
\* collection was built, and the moves of one piece in the order its
\* generator emitted their destinations.
C19_LegalMovesInSupplyOrder ==
    ret.op = "get_legal_moves" =>
        \A parts \in GlmFens :
            parse_fen(parts).state = state =>
                \A i, j \in 1..Len(ret.val) :
                    i < j =>
                        LET a == SupplyIndex(supplied_pieces(parts), ret.val[i].from)
                            b == SupplyIndex(supplied_pieces(parts), ret.val[j].from)
                        IN  \/ a < b
                            \/ /\ a = b
                               /\ EmissionIndex(ret.val[i]) < EmissionIndex(ret.val[j])


\* C20: Point::checked_add(p, q) returns the point (p.x + q.x, p.y + q.y)
\* when both component sums are representable, and None, never a wrapped
\* point, when either component sum is outside the representable range.
C20_CheckedAddExactOrNone ==
    (sum.op = "checked_add" /\ sum.pc = "done") =>
        /\ RepresentablePoint(PointAdd(sum.p, sum.q))
              => sum.out = << PointAdd(sum.p, sum.q) >>
        /\ ~RepresentablePoint(PointAdd(sum.p, sum.q)) => sum.out = << >>

\* A call whose x sum is representable while its y sum is not has returned.
C20_Witness ==
    /\ sum.op = "checked_add"
    /\ sum.pc = "done"
    /\ Representable(sum.p.x + sum.q.x)
    /\ sum.p.y + sum.q.y > CoordMax
    /\ sum.out = << >>

\* q is the quotient of a by b # 0 truncated toward zero: what is left over,
\* a - q * b, is smaller than b in magnitude and is zero or has the sign of a.
IsTruncatedQuotient(q, a, b) ==
    /\ Abs(a - q * b) < Abs(b)
    /\ (a >= 0 => a - q * b >= 0)
    /\ (a <= 0 => a - q * b <= 0)

\* The operator applied last returned the point (x, y).
OpGave(x, y) == sum.out = << [panicked |-> FALSE, point |-> Point(x, y)] >>

\* C21: Point addition and subtraction are component-wise, multiplication by
\* a scalar multiplies both components, division by a non-zero scalar divides
\* both components with truncation toward zero, and (p1 + p2) * 2 - p3 equals
\* the component-wise result; each whenever the component results, and those
\* of the steps before, are representable.
C21_OperatorsComponentWise ==
    (sum.op = "operators" /\ sum.pc = "done") =>
        /\ (sum.f = "add" /\ Representable(sum.p.x + sum.q.x)
                          /\ Representable(sum.p.y + sum.q.y))
              => OpGave(sum.p.x + sum.q.x, sum.p.y + sum.q.y)
        /\ (sum.f = "sub" /\ Representable(sum.p.x - sum.q.x)
                          /\ Representable(sum.p.y - sum.q.y))
              => OpGave(sum.p.x - sum.q.x, sum.p.y - sum.q.y)
        /\ (sum.f = "mul" /\ Representable(sum.p.x * sum.value)
                          /\ Representable(sum.p.y * sum.value))
              => OpGave(sum.p.x * sum.value, sum.p.y * sum.value)
        /\ (sum.f = "div" /\ sum.value # 0
                          /\ ~(sum.value = -1 /\ CoordMin \in {sum.p.x, sum.p.y}))
              => /\ ~sum.out[1].panicked
                 /\ IsTruncatedQuotient(sum.out[1].point.x, sum.p.x, sum.value)
                 /\ IsTruncatedQuotient(sum.out[1].point.y, sum.p.y, sum.value)
        /\ (sum.f = "chain" /\ Representable((sum.p.x + sum.q.x) * 2)
                            /\ Representable((sum.p.y + sum.q.y) * 2)
                            /\ Representable((sum.p.x + sum.q.x) * 2 - sum.r.x)
                            /\ Representable((sum.p.y + sum.q.y) * 2 - sum.r.y))
              => OpGave((sum.p.x + sum.q.x) * 2 - sum.r.x,
                        (sum.p.y + sum.q.y) * 2 - sum.r.y)

\* A division of a negative odd component by a positive scalar has returned:
\* (-7, 2) / 2 = (-3, 1).
C21_Witness ==
    /\ sum.op = "operators"
    /\ sum.pc = "done"
    /\ sum.f = "div"
    /\ sum.p = Point(-7, 2)
    /\ sum.value = 2
    /\ OpGave(-3, 1)

\* An alive piece of colour `color` stands on square p.
FriendlyOn(s, p, color) ==
    \E i \in 1..Len(s.pieces.list) :
        /\ s.pieces.list[i].alive
        /\ s.pieces.list[i].position = p
        /\ s.pieces.list[i].color = color

\* C22: is_legal returns false for every non-castling move whose destination
\* square holds a piece of the mover's own colour, and no move returned by
\* get_legal_moves() lands on a friendly piece.
C22_NoFriendlyFire ==
    /\ (/\ ret.op = "is_legal"
        /\ ~mv[1].is_castling
        /\ mv[1].from # mv[1].to
        /\ FriendlyOn(state, mv[1].from, state.to_move)
        /\ FriendlyOn(state, mv[1].to, state.to_move))
       => ~ret.val
    /\ ret.op = "get_legal_moves" =>
          \A k \in 1..Len(ret.val) :
              ~FriendlyOn(state, ret.val[k].to, state.to_move)

\* An alive piece stands on square p.
AliveAt(s, p) == FriendlyOn(s, p, TRUE) \/ FriendlyOn(s, p, FALSE)

\* The pawn moves the shape step is to accept: forward-1 onto an empty square,
\* forward-2 of an unmoved pawn over and onto empty squares, a one-step
\* forward diagonal onto an enemy piece or flagged en passant.
PawnShapeExpected(s, m) ==
    LET direction == IF m.piece.color THEN 1 ELSE -1
        dx == m.to.x - m.from.x
        dy == m.to.y - m.from.y
    IN  \/ /\ dx = 0 /\ dy = direction
           /\ ~AliveAt(s, m.to)
        \/ /\ dx = 0 /\ dy = 2 * direction
           /\ ~m.piece.moved
           /\ ~AliveAt(s, Point(m.from.x, m.from.y + direction))
           /\ ~AliveAt(s, m.to)
        \/ /\ Abs(dx) = 1 /\ dy = direction
           /\ (FriendlyOn(s, m.to, ~m.piece.color) \/ m.is_en_passant)

\* C23: for a pawn the shape step of is_legal accepts exactly the forward-1
\* move onto an empty square, the forward-2 move of an unmoved pawn over and
\* onto empty squares, and the one-step forward diagonal onto an enemy piece
\* or flagged en passant; every other pawn move is rejected.
C23_PawnShape ==
    (/\ ret.op = "is_basic_move_legal"
     /\ mv[1].piece.form = "Pawn"
     /\ mv[1].piece.alive)
    => (ret.val <=> PawnShapeExpected(state, mv[1]))

\* The squares strictly between from and to on a rank, file or diagonal.
SquaresBetween(from, to) ==
    LET dx == to.x - from.x
        dy == to.y - from.y
        n == IF Abs(dx) > Abs(dy) THEN Abs(dx) ELSE Abs(dy)
    IN  {Point(from.x + k * Signum(dx), from.y + k * Signum(dy)) : k \in 1..(n - 1)}

PathEmpty(s, m) == \A sq \in SquaresBetween(m.from, m.to) : ~AliveAt(s, sq)

DiagonalShape(s, m) ==
    /\ Abs(m.to.x - m.from.x) = Abs(m.to.y - m.from.y)
    /\ Abs(m.to.x - m.from.x) > 0
    /\ PathEmpty(s, m)

StraightShape(s, m) ==
    /\ (m.to.x = m.from.x) # (m.to.y = m.from.y)
    /\ PathEmpty(s, m)

\* C24: a Bishop move passes the shape step iff |dx| = |dy| > 0 and every
\* square strictly between from and to is empty, a Rook move iff exactly one
\* of dx, dy is zero and every square strictly between is empty, a Queen move
\* iff it passes as one of the two; no accepted move passes over a piece.
C24_SliderShape ==
    (ret.op = "is_basic_move_legal" /\ mv[1].piece.alive) =>
        /\ mv[1].piece.form = "Bishop"
              => (ret.val <=> DiagonalShape(state, mv[1]))
        /\ mv[1].piece.form = "Rook"
              => (ret.val <=> StraightShape(state, mv[1]))
        /\ mv[1].piece.form = "Queen"
              => (ret.val <=> (DiagonalShape(state, mv[1])
                               \/ StraightShape(state, mv[1])))

\* The index of the alive piece of colour `color` on square p; 0 if none.
AliveIndex(s, p, color) ==
    LET S == {i \in 1..Len(s.pieces.list) :
                /\ s.pieces.list[i].alive
                /\ s.pieces.list[i].position = p
                /\ s.pieces.list[i].color = color}
    IN  IF S = {} THEN 0 ELSE CHOOSE i \in S : TRUE

\* Move m captures in state s: a piece of the side to move goes onto a square
\* held by an enemy piece, which the move records as captured; is_legal has
\* accepted the move.
IsCapture(s, m) ==
    /\ m.is_legal
    /\ m.captured_piece # << >>
    /\ m.from # m.to
    /\ AliveIndex(s, m.from, s.to_move) # 0
    /\ AliveIndex(s, m.to, ~s.to_move) # 0

\* C25: after make_move of a capturing move the captured piece is still in
\* the collection at the same index but not alive, the capturing piece is
\* alive on the destination square, no other piece's alive flag changes, and
\* the collection keeps its length and order; whichever colour captures.
C25_CaptureLeavesTombstone ==
    (ret.op = "make_move" /\ mv # << >> /\ IsCapture(state, mv[1])) =>
        LET old == state.pieces.list
            new == ret.val.pieces.list
            i == AliveIndex(state, mv[1].from, state.to_move)
            j == AliveIndex(state, mv[1].to, ~state.to_move)
        IN  /\ Len(new) = Len(old)
            /\ \A k \in 1..Len(old) :
                  /\ new[k].color = old[k].color
                  /\ k # i => (new[k].form = old[k].form
                                /\ new[k].position = old[k].position)
            /\ ~new[j].alive
            /\ new[i].alive
            /\ new[i].position = mv[1].to
            /\ \A k \in 1..Len(old) : k # j => new[k].alive = old[k].alive

\* The number of pieces in the collection that are not kings.
NonKingCount(s) ==
    Cardinality({i \in 1..Len(s.pieces.list) : s.pieces.list[i].form # "King"})

C27_NoNestedSimulation ==
    (ret.op = "is_legal" /\ mv # << >> /\ ~mv[1].is_castling) =>
        is_legal_nesting(mv[1], state) <= 1

\* Move m, accepted by is_legal, is a pawn of the side to move advancing two
\* squares along its file in state s.
IsDoubleAdvance(s, m) ==
    /\ m.is_legal
    /\ m.piece.form = "Pawn"
    /\ AliveIndex(s, m.from, s.to_move) # 0
    /\ s.pieces.list[AliveIndex(s, m.from, s.to_move)].form = "Pawn"
    /\ m.to.x = m.from.x
    /\ Abs(m.to.y - m.from.y) = 2

\* The indices of the pieces marked as en-passant target.
MarkedTargets(pieces) ==
    {i \in 1..Len(pieces.list) : pieces.list[i].is_en_passant_target}

\* C28: after make_move of a pawn's two-square advance the successor has
\* exactly one piece marked as en-passant target and get_en_passant_target
\* answers with the square of the pawn that advanced; after make_move of any
\* other accepted move no piece is marked.
C28_SingleEnPassantTarget ==
    (ret.op = "make_move" /\ mv # << >> /\ mv[1].is_legal) =>
        IF IsDoubleAdvance(state, mv[1])
        THEN /\ Cardinality(MarkedTargets(ret.val.pieces)) = 1
             /\ get_en_passant_target(ret.val.pieces) = << mv[1].to >>
        ELSE MarkedTargets(ret.val.pieces) = {}

\* The indices of the alive pieces on square p.
AliveOn(s, p) ==
    {i \in 1..Len(s.pieces.list) :
        s.pieces.list[i].alive /\ s.pieces.list[i].position = p}

\* The square of the pawn an en-passant move m bypasses: the destination
\* file on the capturing pawn's origin rank.
BypassedSquare(m) == Point(m.to.x, m.from.y)

\* Move m is an en-passant capture in state s: flagged en passant, a pawn of
\* the side to move stepping one square diagonally forward onto an empty
\* square, with an enemy pawn beside it on the destination file.
IsEnPassantCapture(s, m) ==
    /\ m.is_en_passant
    /\ ~m.is_castling
    /\ m.captured_piece = << >>
    /\ Abs(m.to.x - m.from.x) = 1
    /\ m.to.y - m.from.y = (IF s.to_move THEN 1 ELSE -1)
    /\ AliveOn(s, m.to) = {}
    /\ \E i \in 1..Len(s.pieces.list) :
          /\ AliveOn(s, m.from) = {i}
          /\ s.pieces.list[i].form = "Pawn"
          /\ s.pieces.list[i].color = s.to_move
    /\ \E j \in 1..Len(s.pieces.list) :
          /\ AliveOn(s, BypassedSquare(m)) = {j}
          /\ s.pieces.list[j].form = "Pawn"
          /\ s.pieces.list[j].color = ~s.to_move

\* C29: make_move of an en-passant capture marks the bypassed enemy pawn not
\* alive and keeps it in the collection where it was, leaves the capturing
\* pawn alive on the destination square, and changes no other piece's alive
\* flag.
C29_EnPassantRemovesBypassedPawn ==
    (ret.op = "make_move" /\ mv # << >> /\ IsEnPassantCapture(state, mv[1])) =>
        LET old == state.pieces.list
            new == ret.val.pieces.list
            i == CHOOSE k \in AliveOn(state, mv[1].from) : TRUE
            j == CHOOSE k \in AliveOn(state, BypassedSquare(mv[1])) : TRUE
        IN  /\ Len(new) = Len(old)
            /\ ~new[j].alive
            /\ new[j].form = "Pawn"
            /\ new[j].color = old[j].color
            /\ new[j].position = old[j].position
            /\ new[i].alive
            /\ new[i].position = mv[1].to
            /\ \A k \in 1..Len(old) : k # j => new[k].alive = old[k].alive

\* Piece p lists a two-square forward step among its offsets.
HasDoubleStepOffset(p) ==
    \E j \in 1..Len(p.offsets) : p.offsets[j].x = 0 /\ Abs(p.offsets[j].y) = 2

\* C30: in every state make_move produces from an accepted move, a pawn
\* whose moved flag is true has no forward-2 entry in its offset list.
C30_MovedPawnDropsDoubleStep ==
    (ret.op = "make_move" /\ mv # << >> /\ mv[1].is_legal) =>
        \A k \in 1..Len(ret.val.pieces.list) :
            LET p == ret.val.pieces.list[k]
            IN  (p.form = "Pawn" /\ p.moved) => ~HasDoubleStepOffset(p)

\* The pieces of sequence seq are exactly the pieces of colour `color` of the
\* collection, in the collection's order.
ExactlyColor(seq, pieces, color) ==
    /\ \A k \in 1..Len(seq) : seq[k].color = color
    /\ Len(seq) = Cardinality({i \in 1..Len(pieces.list) :
                                  pieces.list[i].color = color})

\* The collection is partitioned by colour and its accessors answer
\* accordingly.
PartitionIntact(pieces) ==
    /\ \A i, j \in 1..Len(pieces.list) :
          (pieces.list[i].color /\ ~pieces.list[j].color) => i < j
    /\ ExactlyColor(get_white_pieces(pieces), pieces, TRUE)
    /\ ExactlyColor(get_black_pieces(pieces), pieces, FALSE)
    /\ get_white_king(pieces).form = "King"
    /\ get_white_king(pieces).color
    /\ get_black_king(pieces).form = "King"
    /\ ~get_black_king(pieces).color

\* C31: in the successor make_move returns for an accepted move, white
\* pieces precede black ones, get_white_pieces and get_black_pieces return
\* exactly the pieces of their colour, the collection has the length and the
\* colour order it had, and get_white_king / get_black_king return the King
\* of their colour.
C31_PartitionPreserved ==
    (ret.op = "make_move" /\ mv # << >> /\ mv[1].is_legal
        /\ PartitionIntact(state.pieces)) =>
        /\ PartitionIntact(ret.val.pieces)
        /\ Len(ret.val.pieces.list) = Len(state.pieces.list)
        /\ \A k \in 1..Len(state.pieces.list) :
              ret.val.pieces.list[k].color = state.pieces.list[k].color

\* The side to move has an alive piece on the origin square of move m.
MoverOnFrom(s, m) ==
    \E i \in AliveOn(s, m.from) : s.pieces.list[i].color = s.to_move

\* C32: is_legal answers false when from equals to and when no piece of the
\* side to move stands on the from square (the square is empty or holds an
\* enemy piece), and in both cases it runs no simulation.
C32_RejectsNoOpAndForeignFrom ==
    (ret.op = "is_legal" /\ mv # << >>
        /\ (mv[1].from = mv[1].to \/ ~MoverOnFrom(state, mv[1]))) =>
        /\ ~ret.val
        /\ is_legal_nesting(mv[1], state) = 0

\* C33: after a call of is_legal the is_legal field of the Move equals the
\* boolean the call returned, also for a Move that was accepted on an
\* earlier state.
C33_CachedFlagIsAnswer ==
    (ret.op = "is_legal" /\ mv # << >>) => (mv[1].is_legal = ret.val)

\* The entries of the piece's offset list whose destination position + offset
\* is representable.
RepresentableOffsets(piece) ==
    {j \in 1..Len(piece.offsets) :
        RepresentablePoint(PointAdd(piece.position, piece.offsets[j]))}

\* C34: a failed checked addition ends generation for its own direction
\* only: once next() has been called as often as the piece has offsets, the
\* generator has returned a destination for every offset whose destination is
\* representable.
C34_OverflowEndsOneDirection ==
    (gen.op = "generator" /\ gen.n >= Len(gen.piece.offsets)) =>
        gen.emitted >= Cardinality(RepresentableOffsets(gen.piece))

\* No square of s holds two alive pieces, and get_piece_at answers with the
\* alive piece of a square that has one.
AlivePiecesFound(s) ==
    \A i \in 1..Len(s.pieces.list) :
        LET p == s.pieces.list[i]
        IN  p.alive =>
              /\ AliveOn(s, p.position) = {i}
              /\ get_piece_at(s.pieces, p.position.x, p.position.y) = << p >>

\* C35: in the caller's state, reached from a parse_fen position by moves
\* get_legal_moves returned, and in the successor make_move returns for a
\* move is_legal accepted, no square holds two alive pieces and get_piece_at
\* finds every alive piece on its own square.
C35_AlivePiecesFound ==
    /\ AlivePiecesFound(state)
    /\ (ret.op = "make_move" /\ mv # << >> /\ mv[1].is_legal) =>
          AlivePiecesFound(ret.val)

\* The indices of the alive kings of colour `color`.
AliveKings(s, color) ==
    {i \in 1..Len(s.pieces.list) :
        /\ s.pieces.list[i].form = "King"
        /\ s.pieces.list[i].color = color
        /\ s.pieces.list[i].alive}

OneAliveKingEach(s) ==
    /\ Cardinality(AliveKings(s, TRUE)) = 1
    /\ Cardinality(AliveKings(s, FALSE)) = 1

\* C36: every state the caller reaches from a position with exactly one
\* alive king per colour by applying moves is_legal accepted has exactly one
\* alive king per colour.
C36_KingsSurvive == OneAliveKingEach(state)

\* Where the not-alive pieces are put to see what play is like without them:
\* a square far from every piece and every candidate move.
Graveyard == Point(CoordMin, CoordMin)

\* State s with its not-alive pieces taken off the board.
Buried(s) ==
    [s EXCEPT !.pieces.list =
        [i \in 1..Len(s.pieces.list) |->
            IF s.pieces.list[i].alive THEN s.pieces.list[i]
            ELSE [s.pieces.list[i] EXCEPT !.position = Graveyard]]]

\* The from square of m holds pieces, none of them alive.
OnlyDeadOn(s, p) ==
    /\ AliveOn(s, p) = {}
    /\ get_piece_at(s.pieces, p.x, p.y) # << >>

\* C37: a not-alive piece takes no part in play: is_legal rejects a move
\* whose from square holds only a not-alive piece, and on a position whose
\* kings are alive it answers what it answers with the not-alive pieces off
\* the board, so they neither block a path or a pawn's advance nor serve as
\* the occupant a pawn's diagonal step needs.
C37_DeadPiecesOutOfPlay ==
    (ret.op = "is_legal" /\ mv # << >>) =>
        /\ OnlyDeadOn(state, mv[1].from) => ~ret.val
        /\ OneAliveKingEach(state) =>
              ret.val = is_legal([mv[1] EXCEPT !.captured_piece = << >>],
                                 Buried(state)).ret

\* Move m goes two squares along its file.
TwoAlongFile(m) == m.to.x = m.from.x /\ Abs(m.to.y - m.from.y) = 2

\* The piece get_piece_at finds on the from square of m is a pawn of the side
\* to move whose moved flag is set.
MovedPawnOnFrom(s, m) ==
    LET p == get_piece_at(s.pieces, m.from.x, m.from.y)
    IN  /\ p # << >>
        /\ p[1].form = "Pawn"
        /\ p[1].color = s.to_move
        /\ p[1].moved

\* C38: is_legal rejects the two-square move of a pawn whose moved flag is
\* set, and a two-square pawn advance the caller has applied after is_legal
\* accepted it was made by a pawn that had not moved before.
C38_DoubleStepOnlyUnmoved ==
    /\ (ret.op = "is_legal" /\ mv # << >> /\ MovedPawnOnFrom(state, mv[1])
           /\ TwoAlongFile(mv[1])) => ~ret.val
    /\ (state.last_move # << >> /\ state.last_move[1].is_legal
           /\ state.last_move[1].piece.form = "Pawn"
           /\ TwoAlongFile(state.last_move[1])) =>
          ~state.last_move[1].piece.moved

\* C38 witness: is_legal has answered for the two-square advance of an alive
\* pawn that has moved, with both squares in front of it empty.
C38_Witness ==
    /\ ret.op = "is_legal"
    /\ mv # << >>
    /\ MovedPawnOnFrom(state, mv[1])
    /\ AliveOn(state, mv[1].from) # {}
    /\ mv[1].to = PointAdd(mv[1].from,
                           Point(0, IF state.to_move THEN 2 ELSE -2))
    /\ get_piece_at(state.pieces, mv[1].to.x, mv[1].to.y) = << >>
    /\ get_piece_at(state.pieces, mv[1].from.x,
                    mv[1].from.y + (IF state.to_move THEN 1 ELSE -1)) = << >>

\* Move m carries none of the castling, en-passant and promotion annotations.
Unflagged(m) ==
    /\ ~m.is_castling
    /\ ~m.is_en_passant
    /\ ~m.is_promotion
    /\ m.promotion_type = << >>

C40_TwoSquareTestExact ==
    (sum.op = "ranks" /\ sum.pc = "done") =>
        /\ ~sum.out[1].panicked
        /\ sum.out[1].two <=> (Abs(sum.to_y - sum.from_y) = 2)

====
